---- MODULE Spec2Model ----
(***************************************************************************)
(* The structured logging and tracing core of the FastAPI boilerplate:     *)
(* shared_logging.py (sink layer, logger registry, span tracer, exception  *)
(* capturer), backend/middleware/request_id.py (correlation context) and   *)
(* the parts of backend/main.py that call into them, with the readers of   *)
(* the JSON-lines file: the debug endpoints of backend/main.py and follow  *)
(* mode of logs/view_logs.py.                                              *)
(*                                                                         *)
(* Python values: None is the empty tuple, a present optional value v is   *)
(* the one-element tuple <<v>>; a dict is a function from its keys.         *)
(***************************************************************************)
EXTENDS Integers, Sequences, FiniteSets, TLC

VARIABLES
    initialized,        \* shared_logging._initialized
    rootLevel,          \* logging.getLogger().level
    rootHandlers,       \* logging.getLogger().handlers, in order
    loggerDict,         \* logging's manager: logger name -> logger object (0: none yet)
    loggerObjs,         \* the logging.Logger objects: [name, filters]
    cache,              \* shared_logging._loggers: key string -> logger object
    sinks,              \* what each sink has written: console, main, error, json
    backendImportable,  \* whether "from backend.middleware.request_id import ..." succeeds
    ctxVar,             \* _request_id_context, one slot per execution context
    reqPc,              \* where each request is in RequestIDMiddleware.dispatch
    reqId,              \* dispatch's local request_id of each request
    held,               \* the handles callers got from get_logger: [obj, module]
    setupLog,           \* the arguments of the calls of setup_centralized_logging
    nCalls,             \* log calls made so far
    nGets,              \* get_logger calls the threads made so far
    thr,                \* each thread inside get_logger: [pc, name, module, logger]
    spans,              \* the log_span scopes open on the execution path, innermost last
    spanOut,            \* the scopes that were left: what the body did, what the caller got
    pending,            \* the failure propagating on the execution path, if any
    now,                \* what time.time() and datetime.utcnow() return
    ingest,             \* the frontend events posted and the response to each
    resp,               \* the query made on the JSON-lines file and its response
    emit,               \* each thread inside Handler.handle of the JSON handler
    hlock,              \* the thread holding the JSON handler's lock, if any
    handled,            \* the records the JSON handler took up, in that order
    follow,             \* the follow-mode process: position, what it printed
    partial,            \* how much of the file's last line a reader can see
    calls,              \* the calls recorded with their arguments and what each got
    logDir              \* the log files the log directory held when the process started

regVars == <<initialized, rootLevel, rootHandlers, loggerDict, loggerObjs, cache>>
ctxVars == <<backendImportable, ctxVar, reqPc, reqId>>
ioVars == <<resp, emit, hlock, handled, follow, partial, calls, logDir>>
spanVars == <<spans, spanOut, pending, now, ingest, ioVars>>
apiVars == <<held, setupLog, nCalls, nGets, thr, spans, spanOut, pending, now, ingest,
             ioVars>>
callVars == <<held, setupLog, nCalls, nGets, thr, spans, spanOut, pending, ingest>>
vars == <<initialized, rootLevel, rootHandlers, loggerDict, loggerObjs, cache,
          sinks, backendImportable, ctxVar, reqPc, reqId, held, setupLog, nCalls,
          nGets, thr, spans, spanOut, pending, now, ingest,
          resp, emit, hlock, handled, follow, partial, calls, logDir>>

----------------------------------------------------------------------------
(* Bounds of the model *)

MaxRecords == 3     \* log calls made in one behaviour
MaxSetupCalls == 2  \* calls of setup_centralized_logging in one behaviour
MaxCalls == 2       \* log calls a registry caller makes in one behaviour
MaxGetCalls == 2    \* get_logger calls the threads make in one behaviour
MaxThreadLogs == 1  \* log calls made while threads are inside get_logger
MaxSpans == 2       \* log_span scopes entered in one behaviour
MaxIngest == 2      \* frontend events posted in one behaviour
MaxLines == 3       \* lines of the JSON-lines file a query is made on
MaxAppLogs == 6     \* records the backend logs before its log is summarised
MaxEmits == 3       \* log calls the emitting threads make in one behaviour
MaxFollowLines == 3 \* lines written to the file that follow mode reads
MaxSinkCalls == 2   \* log calls made on a sink layer that can fail
MaxWindow == 20     \* records in the window of a diagnostic summary
MaxCaptures == 1    \* calls of log_exception_context in one behaviour
MaxLocals == 3      \* variables in the frame that calls log_exception_context
MaxSystemLines == 2 \* lines of the file while all operations run together

----------------------------------------------------------------------------
(* Python values *)

None == <<>>
Some(v) == <<v>>

\* getattr(record, k, None) for the attributes a record may or may not have
GetAttr(rec, k) == IF k \in DOMAIN rec THEN rec[k] ELSE None

\* logging's numeric levels
LevelNo(l) ==
    CASE l = "DEBUG" -> 10
      [] l = "INFO" -> 20
      [] l = "WARNING" -> 30
      [] l = "ERROR" -> 40
      [] l = "CRITICAL" -> 50

LevelNames == {"DEBUG", "INFO", "WARNING", "ERROR", "CRITICAL"}

UpperChars == "ABCDEFGHIJKLMNOPQRSTUVWXYZ"
LowerChars == "abcdefghijklmnopqrstuvwxyz"

\* character ch, mapped from the alphabet `from` to the alphabet `to`
MapChar(ch, from, to) ==
    IF \E i \in 1..Len(from) : SubSeq(from, i, i) = ch
    THEN LET i == CHOOSE j \in 1..Len(from) : SubSeq(from, j, j) = ch
         IN SubSeq(to, i, i)
    ELSE ch

RECURSIVE MapChars(_, _, _)
MapChars(str, from, to) ==
    IF str = "" THEN ""
    ELSE MapChar(SubSeq(str, 1, 1), from, to)
         \o MapChars(SubSeq(str, 2, Len(str)), from, to)

\* str.upper() and str.lower()
Upper(str) == MapChars(str, LowerChars, UpperChars)
Lower(str) == MapChars(str, UpperChars, LowerChars)

\* `pattern in str`
Contains(str, pattern) ==
    \E i \in 1..(Len(str) - Len(pattern) + 1) :
        SubSeq(str, i, i + Len(pattern) - 1) = pattern

----------------------------------------------------------------------------
(* Correlation context: backend/middleware/request_id.py *)

Threads == {"t1", "t2"}
ThreadIdle == [pc |-> "idle", name |-> "", module |-> "", logger |-> 0, i |-> 0]
EmitIdle == [pc |-> "idle", rec |-> <<>>, entry |-> <<>>]
FollowOff == [pc |-> "off", source |-> "json", start |-> 0, pos |-> 0, mid |-> FALSE,
              printed |-> <<>>, level |-> <<>>, request_id |-> <<>>, search |-> <<>>]

Requests == {"r1", "r2"}
Background == "bg"                      \* a context no middleware ever ran in
Contexts == Requests \cup {Background}

\* values an inbound X-Request-ID header can carry, and what uuid4 can return
HeaderIds == {"", "a", "ab"}
UuidPool == {"u1", "u2"}

\* get_request_id(), called in execution context c
get_request_id(c) ==
    IF ctxVar[c] = None \/ ctxVar[c] = Some("")
    THEN "no-request-id"
    ELSE ctxVar[c][1]

----------------------------------------------------------------------------
(* Filters and handlers: shared_logging.py *)

\* ModuleTagFilter.filter
ModuleTagFilter(tag, rec) == [k \in DOMAIN rec \cup {"module_tag"} |->
                                IF k = "module_tag" THEN Some(tag) ELSE rec[k]]

\* RequestIDFilter.filter, run in execution context c
RequestIDFilter(rec, c) ==
    LET rid == IF backendImportable THEN get_request_id(c) ELSE "----"
    IN [k \in DOMAIN rec \cup {"request_id"} |->
            IF k = "request_id" THEN Some(rid) ELSE rec[k]]

\* a write that opens the file with mode 'w'
FileOverwrite(file, line) == <<line>>

\* lines 115-116: open(self.filename, 'a'), f.write(line + '\n')
FileWrite(file, line) == Append(file, line)

\* self.formatException(exc_info), traceback.format_exc(): the text for the
\* exception being handled, if there is one
FormatException(handling) ==
    IF handling = None THEN "NoneType: None"
    ELSE "Traceback (most recent call last): " \o handling[1].type \o ": "
         \o handling[1].message

\* JSONLineHandler.emit: the object written as one line.  ts stands for the
\* instant datetime.utcnow() returns.  exc_info, when the call asked for it,
\* is what sys.exc_info() gave: the exception being handled, or None (the
\* tuple of three None, which is true in "if record.exc_info").  The values
\* inside context and exception stay as Python has them: None or Some(v).
JSONLineHandler_emit(rec) ==
    LET exc_info == GetAttr(rec, "exc_info")
        log_entry == [
            ts          |-> Some(now),
            level       |-> Some(rec.levelname),
            module      |-> IF "module_tag" \in DOMAIN rec
                            THEN rec.module_tag ELSE Some("MAIN"),
            request_id  |-> GetAttr(rec, "request_id"),
            logger      |-> Some(rec.name),
            msg         |-> Some(rec.msg),
            span_id     |-> GetAttr(rec, "span_id"),
            span_op     |-> GetAttr(rec, "span_op"),
            duration_ms |-> GetAttr(rec, "duration_ms"),
            context     |-> GetAttr(rec, "log_context"),
            exception   |->
                IF exc_info = None THEN None
                ELSE Some([type |-> IF exc_info[1] # None
                                    THEN Some(exc_info[1][1].type) ELSE None,
                           message |-> IF exc_info[1] # None
                                       THEN Some(exc_info[1][1].message) ELSE None,
                           traceback |-> Some(FormatException(exc_info[1]))])]
    IN [k \in {f \in DOMAIN log_entry : log_entry[f] # None} |-> log_entry[k][1]]

\* logging.Formatter with DETAILED_FORMAT / SIMPLE_FORMAT: the fields of the line.
\* A record without module_tag or request_id cannot be formatted: handleError
\* reports it and nothing is written (None).
FormatText(kind, rec) ==
    IF "module_tag" \notin DOMAIN rec \/ "request_id" \notin DOMAIN rec
    THEN None
    ELSE IF kind = "console"
         THEN Some([level |-> rec.levelname, module |-> rec.module_tag[1],
                    request_id |-> rec.request_id[1], msg |-> rec.msg])
         ELSE Some([level |-> rec.levelname, module |-> rec.module_tag[1],
                    request_id |-> rec.request_id[1], name |-> rec.name,
                    msg |-> rec.msg])

\* Handler.handle of one installed handler h: its filter, then its emit
HandlerHandle(s, h, rec, c) ==
    LET r == RequestIDFilter(rec, c)
    IN IF h.kind = "json"
       THEN [s EXCEPT !.json = FileWrite(@, JSONLineHandler_emit(r))]
       ELSE [s EXCEPT ![h.kind] = @ \o FormatText(h.kind, r)]

\* Logger.callHandlers: the record propagates to the root logger's handlers
RECURSIVE CallHandlers(_, _, _, _)
CallHandlers(s, hs, rec, c) ==
    IF hs = <<>> THEN s
    ELSE LET h == Head(hs)
         IN CallHandlers(IF LevelNo(rec.levelname) >= h.level
                         THEN HandlerHandle(s, h, rec, c) ELSE s,
                         Tail(hs), rec, c)

\* Filterer.filter of a logger: every attached ModuleTagFilter runs, in order
RECURSIVE LoggerFilters(_, _)
LoggerFilters(tags, rec) ==
    IF tags = <<>> THEN rec
    ELSE LoggerFilters(Tail(tags), ModuleTagFilter(Head(tags), rec))

\* logger.debug/info/warning/error(msg, extra=extra) on logger object obj, in
\* execution context c: the sinks afterwards
\* execution context c, with the registry r and the sinks s: the sinks afterwards
LoggerLogIn(r, s, obj, level, msg, extra, c) ==
    IF LevelNo(level) < r.rootLevel
    THEN s
    ELSE LET rec == [k \in {"levelname", "name", "msg"} \cup DOMAIN extra |->
                        CASE k = "levelname" -> level
                          [] k = "name" -> r.loggerObjs[obj].name
                          [] k = "msg" -> msg
                          [] OTHER -> extra[k]]
         IN CallHandlers(s, r.rootHandlers,
                         LoggerFilters(r.loggerObjs[obj].filters, rec), c)

NoExtra == [k \in {} |-> None]

----------------------------------------------------------------------------
(* Sink layer and registry as values: shared_logging.py *)

LoggerNames == {"main", "shared_logging"}

\* the registry before anything ran: logging's root logger defaults to WARNING
Reg0 == [initialized |-> FALSE,
         rootLevel |-> LevelNo("WARNING"),
         rootHandlers |-> <<>>,
         loggerDict |-> [n \in LoggerNames |-> 0],
         loggerObjs |-> <<>>,
         cache |-> [k \in {} |-> 0]]

Reg == [initialized |-> initialized, rootLevel |-> rootLevel,
        rootHandlers |-> rootHandlers, loggerDict |-> loggerDict,
        loggerObjs |-> loggerObjs, cache |-> cache]

\* the same call on the current registry and sinks
LoggerLog(obj, level, msg, extra, c) ==
    LoggerLogIn(Reg, sinks, obj, level, msg, extra, c)

SetReg(r) ==
    /\ initialized' = r.initialized
    /\ rootLevel' = r.rootLevel
    /\ rootHandlers' = r.rootHandlers
    /\ loggerDict' = r.loggerDict
    /\ loggerObjs' = r.loggerObjs
    /\ cache' = r.cache


\* numeric_level = getattr(logging, log_level.upper(), logging.INFO)
NumericLevel(log_level) ==
    IF Upper(log_level) \in LevelNames THEN LevelNo(Upper(log_level))
    ELSE LevelNo("INFO")

\* the handlers setup_centralized_logging installs, in order
SetupHandlers(numeric_level, console_output) ==
    (IF console_output THEN <<[kind |-> "console", level |-> numeric_level]>> ELSE <<>>)
    \o <<[kind |-> "main", level |-> LevelNo("INFO")],
         [kind |-> "error", level |-> LevelNo("ERROR")],
         [kind |-> "json", level |-> LevelNo("INFO")]>>

\* setup_centralized_logging without its "if _initialized: return"
SetupUnguarded(r, log_level, console_output) ==
    [r EXCEPT !.rootLevel = NumericLevel(log_level),
              !.rootHandlers = SetupHandlers(NumericLevel(log_level), console_output),
              !.initialized = TRUE]

\* setup_centralized_logging(log_level, console_output), run without interruption
Setup(r, log_level, console_output) ==
    IF r.initialized THEN r
    ELSE [r EXCEPT !.rootLevel = NumericLevel(log_level),
                   !.rootHandlers = SetupHandlers(NumericLevel(log_level), console_output),
                   !.initialized = TRUE]

\* logger_key = f"{module}:{name}"
LoggerKey(module, name) == module \o ":" \o name

\* a getLogger that builds a new Logger object on every call
LoggingGetLoggerFresh(r, name) ==
    [r EXCEPT !.loggerObjs = Append(@, [name |-> name, filters |-> <<>>]),
              !.loggerDict[name] = Len(r.loggerObjs) + 1]

\* logging.getLogger(name): one Logger object per name
LoggingGetLogger(r, name) ==
    IF r.loggerDict[name] # 0 THEN r
    ELSE [r EXCEPT !.loggerObjs = Append(@, [name |-> name, filters |-> <<>>]),
                   !.loggerDict[name] = Len(r.loggerObjs) + 1]

\* get_logger(name, module), run without interruption: the registry afterwards
GetLoggerReg(r0, name, module) ==
    LET r1 == IF ~r0.initialized THEN Setup(r0, "INFO", TRUE) ELSE r0
        key == LoggerKey(module, name)
    IN IF key \in DOMAIN r1.cache THEN r1
       ELSE LET r2 == LoggingGetLogger(r1, name)
                obj == r2.loggerDict[name]
            IN [r2 EXCEPT !.loggerObjs[obj].filters = Append(@, module),
                          !.cache = (key :> obj) @@ @]

\* ... and the handle it returns
GetLoggerRet(r0, name, module) ==
    GetLoggerReg(r0, name, module).cache[LoggerKey(module, name)]

----------------------------------------------------------------------------
(* backend/main.py at import: lines 19 and 22 *)

AppReg == GetLoggerReg(Setup(Reg0, "INFO", TRUE), "main", "BACKEND")
AppLogger == GetLoggerRet(Setup(Reg0, "INFO", TRUE), "main", "BACKEND")

NoSinks == [console |-> <<>>, main |-> <<>>, error |-> <<>>, json |-> <<>>]

\* no query made, no thread inside the JSON handler, no follow-mode process
InitIo ==
    /\ resp = None
    /\ emit = [t \in Threads |-> EmitIdle]
    /\ hlock = None
    /\ handled = <<>>
    /\ follow = FollowOff
    /\ partial = "whole"
    /\ calls = <<>>
    /\ logDir = {}

\* the names of the log files in the log directory
FileName(file) ==
    CASE file = "main" -> "application.log"
      [] file = "error" -> "application_errors.log"
      [] file = "json" -> "application.jsonl"

\* a reader that takes the file to be there
PathAssumed(file) == TRUE

\* Path.exists() of a log file: it was in the log directory at the start, a
\* record was appended to it (open(..., 'a') creates it), or setup built its
\* TimedRotatingFileHandler, which opens its file at once (lines 155, 169)
PathExists(file) ==
    \/ file \in logDir
    \/ sinks[file] # <<>>
    \/ /\ file \in {"main", "error"}
       /\ \E i \in 1..Len(rootHandlers) : rootHandlers[i].kind = file

----------------------------------------------------------------------------
(* Requests running concurrently under RequestIDMiddleware *)

\* what the handler of request r logs (read_root's logger.info, main.py:54)
RootMsg(r) == "Root endpoint called by " \o r
BgMsg == "background job"

InitCtx ==
    /\ initialized = AppReg.initialized
    /\ rootLevel = AppReg.rootLevel
    /\ rootHandlers = AppReg.rootHandlers
    /\ loggerDict = AppReg.loggerDict
    /\ loggerObjs = AppReg.loggerObjs
    /\ cache = AppReg.cache
    /\ sinks = NoSinks
    /\ backendImportable \in BOOLEAN
    /\ ctxVar = [c \in Contexts |-> None]
    /\ reqPc = [r \in Requests |-> "new"]
    /\ reqId = [r \in Requests |-> None]
    /\ held = {[obj |-> AppLogger, name |-> "main", module |-> "BACKEND"]}
    /\ setupLog = <<[log_level |-> "INFO", console_output |-> TRUE]>>
    /\ nCalls = 0
    /\ nGets = 0
    /\ thr = [t \in Threads |-> ThreadIdle]
    /\ spans = <<>>
    /\ spanOut = <<>>
    /\ pending = None
    /\ now = 0
    /\ ingest = <<>>
    /\ InitIo

\* dispatch, lines 16-19: the id from the header or a fresh uuid4, then set()
\* in the request's own execution context
Dispatch(r) ==
    /\ backendImportable
    /\ reqPc[r] = "new"
    /\ \E id \in HeaderIds \cup UuidPool :
        /\ reqId' = [reqId EXCEPT ![r] = Some(id)]
        /\ ctxVar' = [ctxVar EXCEPT ![r] = Some(id)]
    /\ reqPc' = [reqPc EXCEPT ![r] = "active"]
    /\ UNCHANGED <<regVars, sinks, backendImportable, apiVars>>

\* call_next(request): the route handler logs in the request's context
HandlerLog(r) ==
    /\ reqPc[r] = "active"
    /\ Len(sinks.json) < MaxRecords
    /\ sinks' = LoggerLog(AppLogger, "INFO", RootMsg(r), NoExtra, r)
    /\ UNCHANGED <<regVars, ctxVars, apiVars>>

\* dispatch, lines 25-27: the response leaves
RequestEnd(r) ==
    /\ reqPc[r] = "active"
    /\ reqPc' = [reqPc EXCEPT ![r] = "done"]
    /\ UNCHANGED <<regVars, sinks, backendImportable, ctxVar, reqId, apiVars>>

\* a log call outside every request: start-up code or a background job
BackgroundLog ==
    /\ Len(sinks.json) < MaxRecords
    /\ sinks' = LoggerLog(AppLogger, "INFO", BgMsg, NoExtra, Background)
    /\ UNCHANGED <<regVars, ctxVars, apiVars>>

NextCtx ==
    \/ \E r \in Requests : Dispatch(r)
    \/ \E r \in Requests : HandlerLog(r)
    \/ \E r \in Requests : RequestEnd(r)
    \/ BackgroundLog

SpecCtx == InitCtx /\ [][NextCtx]_vars

----------------------------------------------------------------------------
(* The registry and the sink layer called from one thread of control *)

Modules == {"BACKEND", "FRONTEND"}
LogLevelArgs == {"INFO", "debug", "ERROR", "verbose"}
CallLevels == {"DEBUG", "INFO", "ERROR"}

\* the text of the n-th log call, made through a handle asked for module m
Msg(n, m) == "call " \o ToString(n) \o " through " \o m

InitApi ==
    /\ initialized = Reg0.initialized
    /\ rootLevel = Reg0.rootLevel
    /\ rootHandlers = Reg0.rootHandlers
    /\ loggerDict = Reg0.loggerDict
    /\ loggerObjs = Reg0.loggerObjs
    /\ cache = Reg0.cache
    /\ sinks = NoSinks
    /\ backendImportable = TRUE
    /\ ctxVar = [c \in Contexts |-> None]
    /\ reqPc = [r \in Requests |-> "new"]
    /\ reqId = [r \in Requests |-> None]
    /\ held = {}
    /\ setupLog = <<>>
    /\ nCalls = 0
    /\ nGets = 0
    /\ thr = [t \in Threads |-> ThreadIdle]
    /\ spans = <<>>
    /\ spanOut = <<>>
    /\ pending = None
    /\ now = 0
    /\ ingest = <<>>
    /\ InitIo

\* setup_centralized_logging(log_level, console_output)
setup_centralized_logging(log_level, console_output) ==
    /\ Len(setupLog) < MaxSetupCalls
    /\ SetReg(Setup(Reg, log_level, console_output))
    /\ setupLog' = Append(setupLog, [log_level |-> log_level,
                                     console_output |-> console_output])
    /\ UNCHANGED <<spanVars, sinks, ctxVars, held, nCalls, nGets, thr>>

\* get_logger(name, module); line 203 calls setup_centralized_logging() first
\* when the sink layer is not initialised
get_logger(name, module) ==
    /\ SetReg(GetLoggerReg(Reg, name, module))
    /\ held' = held \cup {[obj |-> GetLoggerRet(Reg, name, module),
                            name |-> name, module |-> module]}
    /\ initialized \/ Len(setupLog) < MaxSetupCalls
    /\ setupLog' = IF initialized THEN setupLog
                   ELSE Append(setupLog, [log_level |-> "INFO", console_output |-> TRUE])
    /\ UNCHANGED <<spanVars, sinks, ctxVars, nCalls, nGets, thr>>

\* get_frontend_logger(name)
get_frontend_logger(name) == get_logger(name, "FRONTEND")

\* a caller logs through a handle it holds
LogThrough(h, level) ==
    /\ nCalls < MaxCalls
    /\ nCalls' = nCalls + 1
    /\ sinks' = LoggerLog(h.obj, level, Msg(nCalls + 1, h.module), NoExtra, Background)
    /\ UNCHANGED <<spanVars, regVars, ctxVars, held, setupLog, nGets, thr>>

\* callers that only take handles and log through them
NextApi ==
    \/ \E n \in LoggerNames : get_logger(n, "BACKEND")
    \/ \E n \in LoggerNames : get_frontend_logger(n)
    \/ \E h \in held, l \in CallLevels : LogThrough(h, l)

SpecApi == InitApi /\ [][NextApi]_vars

\* callers that also configure the sink layer themselves
NextSetup ==
    \/ \E l \in LogLevelArgs, co \in BOOLEAN : setup_centralized_logging(l, co)
    \/ get_logger("main", "BACKEND")
    \/ \E h \in held, l \in CallLevels : LogThrough(h, l)

SpecSetup == InitApi /\ [][NextSetup]_vars

----------------------------------------------------------------------------
(* get_logger called by several threads at once: nothing in shared_logging *)
(* takes a lock, so the threads interleave between statements              *)

At(t, pc) == thr[t].pc = pc
Goto(t, pc) == thr' = [thr EXCEPT ![t].pc = pc]
Return(t) == thr' = [thr EXCEPT ![t] = ThreadIdle]

\* the handlers get_logger's setup_centralized_logging() call installs
DefaultHandlers == SetupHandlers(NumericLevel("INFO"), TRUE)

\* a thread calls get_logger(name, module)
T_Call(t) ==
    /\ At(t, "idle")
    /\ nGets < MaxGetCalls
    /\ nGets' = nGets + 1
    /\ \E n \in {"main"}, m \in Modules :
        thr' = [thr EXCEPT ![t] = [pc |-> "gl_init", name |-> n, module |-> m,
                                   logger |-> 0, i |-> 0]]
    /\ UNCHANGED <<spanVars, regVars, sinks, ctxVars, held, setupLog, nCalls>>

\* get_logger line 202: if not _initialized
T_InitCheck(t) ==
    /\ At(t, "gl_init")
    /\ Goto(t, IF initialized THEN "gl_lookup" ELSE "su_check")
    /\ UNCHANGED <<spanVars, regVars, sinks, ctxVars, held, setupLog, nCalls, nGets>>

\* setup_centralized_logging line 129: if _initialized: return
T_SetupCheck(t) ==
    /\ At(t, "su_check")
    /\ Goto(t, IF initialized THEN "gl_lookup" ELSE "su_level")
    /\ UNCHANGED <<spanVars, regVars, sinks, ctxVars, held, setupLog, nCalls, nGets>>

\* line 136: root_logger.setLevel(numeric_level)
T_SetupLevel(t) ==
    /\ At(t, "su_level")
    /\ rootLevel' = NumericLevel("INFO")
    /\ Goto(t, "su_clear")
    /\ UNCHANGED <<spanVars, initialized, rootHandlers, loggerDict, loggerObjs, cache,
                   sinks, ctxVars, held, setupLog, nCalls, nGets>>

\* line 137: root_logger.handlers.clear()
T_SetupClear(t) ==
    /\ At(t, "su_clear")
    /\ rootHandlers' = <<>>
    /\ thr' = [thr EXCEPT ![t].pc = "su_add", ![t].i = 1]
    /\ UNCHANGED <<spanVars, initialized, rootLevel, loggerDict, loggerObjs, cache,
                   sinks, ctxVars, held, setupLog, nCalls, nGets>>

\* lines 152, 166, 180, 186: root_logger.addHandler of the next new handler
T_SetupAdd(t) ==
    /\ At(t, "su_add")
    /\ rootHandlers' = Append(rootHandlers, DefaultHandlers[thr[t].i])
    /\ thr' = [thr EXCEPT ![t].pc = IF thr[t].i = Len(DefaultHandlers)
                                    THEN "su_done" ELSE "su_add",
                          ![t].i = @ + 1]
    /\ UNCHANGED <<spanVars, initialized, rootLevel, loggerDict, loggerObjs, cache,
                   sinks, ctxVars, held, setupLog, nCalls, nGets>>

\* line 195: _initialized = True, and back in get_logger
T_SetupDone(t) ==
    /\ At(t, "su_done")
    /\ initialized' = TRUE
    /\ Goto(t, "gl_lookup")
    /\ UNCHANGED <<spanVars, rootLevel, rootHandlers, loggerDict, loggerObjs, cache,
                   sinks, ctxVars, held, setupLog, nCalls, nGets>>

\* lines 205-207: the cached handle, if the key is in _loggers
T_Lookup(t) ==
    /\ At(t, "gl_lookup")
    /\ LET key == LoggerKey(thr[t].module, thr[t].name)
       IN IF key \in DOMAIN cache
          THEN /\ held' = held \cup {[obj |-> cache[key], name |-> thr[t].name,
                                      module |-> thr[t].module]}
               /\ Return(t)
          ELSE /\ Goto(t, "gl_get")
               /\ UNCHANGED held
    /\ UNCHANGED <<spanVars, regVars, sinks, ctxVars, setupLog, nCalls, nGets>>

\* line 209: logger = logging.getLogger(name)
T_GetLogger(t) ==
    /\ At(t, "gl_get")
    /\ SetReg(LoggingGetLogger(Reg, thr[t].name))
    /\ thr' = [thr EXCEPT ![t].pc = "gl_filter",
                          ![t].logger = LoggingGetLogger(Reg, thr[t].name).loggerDict[thr[t].name]]
    /\ UNCHANGED <<spanVars, sinks, ctxVars, held, setupLog, nCalls, nGets>>

\* lines 212-213: logger.addFilter(ModuleTagFilter(module))
T_AddFilter(t) ==
    /\ At(t, "gl_filter")
    /\ loggerObjs' = [loggerObjs EXCEPT ![thr[t].logger].filters = Append(@, thr[t].module)]
    /\ Goto(t, "gl_store")
    /\ UNCHANGED <<spanVars, initialized, rootLevel, rootHandlers, loggerDict, cache,
                   sinks, ctxVars, held, setupLog, nCalls, nGets>>

\* lines 216-218: _loggers[logger_key] = logger; return logger
T_Store(t) ==
    /\ At(t, "gl_store")
    /\ cache' = (LoggerKey(thr[t].module, thr[t].name) :> thr[t].logger) @@ cache
    /\ held' = held \cup {[obj |-> thr[t].logger, name |-> thr[t].name,
                           module |-> thr[t].module]}
    /\ Return(t)
    /\ UNCHANGED <<spanVars, initialized, rootLevel, rootHandlers, loggerDict, loggerObjs,
                   sinks, ctxVars, setupLog, nCalls, nGets>>

\* a thread that has its handle logs through it
ThreadLog(h) ==
    /\ nCalls < MaxThreadLogs
    /\ LogThrough(h, "ERROR")

NextThreads ==
    \/ \E t \in Threads : T_Call(t)
    \/ \E t \in Threads : T_InitCheck(t)
    \/ \E t \in Threads : T_SetupCheck(t)
    \/ \E t \in Threads : T_SetupLevel(t)
    \/ \E t \in Threads : T_SetupClear(t)
    \/ \E t \in Threads : T_SetupAdd(t)
    \/ \E t \in Threads : T_SetupDone(t)
    \/ \E t \in Threads : T_Lookup(t)
    \/ \E t \in Threads : T_GetLogger(t)
    \/ \E t \in Threads : T_AddFilter(t)
    \/ \E t \in Threads : T_Store(t)
    \/ \E h \in held : ThreadLog(h)

SpecThreads == InitApi /\ [][NextThreads]_vars

----------------------------------------------------------------------------
(* Span tracer: log_span, shared_logging.py lines 230-265 *)

SpanIds == {"4f9a1c2e", "b07d33a1"}     \* str(uuid.uuid4())[:8]
Times == {0, 1}                         \* readings of time.time(), in seconds

\* the **context a caller passes
SpanContexts == { [k \in {} |-> ""],
                  [k \in {"auth_token"} |-> "s3cret"] }

\* what the body of a scope can do
ValueError == [type |-> "ValueError", message |-> "boom", isException |-> TRUE]
CancelledError == [type |-> "CancelledError", message |-> "", isException |-> FALSE]
BodyOutcomes == { [kind |-> "completed", exc |-> None],
                  [kind |-> "returned", exc |-> None],
                  [kind |-> "raised", exc |-> Some(ValueError)],
                  [kind |-> "raised", exc |-> Some(CancelledError)] }

\* the operation name the n-th scope is entered with
Op(n) == "op" \o ToString(n)

\* json.dumps(context, default=str)
JsonDumps(context) == IF context = <<>> THEN "{}" ELSE ToString(context)

\* lines 246-252: extra and message of the SPAN_START record
SpanStart(operation, span_id, context) ==
    [level |-> "INFO",
     msg |-> "SPAN_START:" \o operation \o " | context=" \o JsonDumps(context),
     extra |-> [span_id |-> Some(span_id), span_op |-> Some(operation),
                log_context |-> IF context = <<>> THEN None ELSE Some(context)]]

\* a scope exit that logs no SPAN_END
SpanExitNoEnd(f, body, t) ==
    [log |-> <<>>, out |-> body.exc]

\* lines 254-265: what the generator does after the yield, for frame f, when
\* the body did `body` and time.time() returns t: the records it logs and the
\* failure that leaves the scope
SpanExit(f, body, t) ==
    LET duration_ms == (t - f.start_time) * 1000
    IN IF body.exc # None /\ body.exc[1].isException
       THEN \* except Exception as e: ... raise
            [log |-> <<[level |-> "ERROR",
                        msg |-> "SPAN_ERROR:" \o f.op \o " | duration="
                                \o ToString(duration_ms) \o "ms | error="
                                \o body.exc[1].message,
                        extra |-> [span_id |-> Some(f.span_id), span_op |-> Some(f.op),
                                   duration_ms |-> Some(duration_ms),
                                   log_context |->
                                     Some(("error" :> body.exc[1].message
                                           @@ "error_type" :> body.exc[1].type)
                                          @@ f.context)]]>>,
             out |-> body.exc]
       ELSE IF body.exc # None
       THEN \* not an Exception: no clause of the try statement runs
            [log |-> <<>>, out |-> body.exc]
       ELSE \* else: the body finished or returned
            [log |-> <<[level |-> "INFO",
                        msg |-> "SPAN_END:" \o f.op \o " | duration="
                                \o ToString(duration_ms) \o "ms",
                        extra |-> [span_id |-> Some(f.span_id), span_op |-> Some(f.op),
                                   duration_ms |-> Some(duration_ms),
                                   log_context |-> IF f.context = <<>> THEN None
                                                   ELSE Some(f.context)]]>>,
             out |-> None]

\* the records of a list logged in order through logger obj
RECURSIVE LogAll(_, _, _, _, _)
LogAll(r, s, obj, recs, c) ==
    IF recs = <<>> THEN s
    ELSE LogAll(r, LoggerLogIn(r, s, obj, Head(recs).level, Head(recs).msg,
                               Head(recs).extra, c),
                obj, Tail(recs), c)

nSpans == Len(spans) + Len(spanOut)

\* `with log_span(operation, logger, **context):` up to the yield.  logger is
\* None (line 244 then takes get_logger(__name__, module='SPAN')) or a handle
\* the caller holds.
log_span_enter(logger, context) ==
    /\ pending = None
    /\ nSpans < MaxSpans
    /\ \E span_id \in SpanIds :
        LET r == IF logger = None
                 THEN GetLoggerReg(Reg, "shared_logging", "SPAN") ELSE Reg
            obj == IF logger = None
                   THEN GetLoggerRet(Reg, "shared_logging", "SPAN") ELSE logger[1]
            start == SpanStart(Op(nSpans + 1), span_id, context)
        IN /\ SetReg(r)
           /\ sinks' = LogAll(r, sinks, obj, <<start>>, Background)
           /\ spans' = Append(spans, [op |-> Op(nSpans + 1), span_id |-> span_id,
                                      start_time |-> now, context |-> context,
                                      logger |-> obj])
    /\ UNCHANGED <<ctxVars, held, setupLog, nCalls, nGets, thr, spanOut, pending, now, ingest, ioVars>>

\* the innermost scope is left: its body finished, returned or raised, or a
\* failure of an inner scope propagates through it
log_span_exit(body) ==
    /\ spans # <<>>
    /\ pending # None => body = [kind |-> "raised", exc |-> pending]
    /\ LET f == spans[Len(spans)]
           x == SpanExit(f, body, now)
       IN /\ sinks' = LogAll(Reg, sinks, f.logger, x.log, Background)
          /\ spanOut' = Append(spanOut, [op |-> f.op, span_id |-> f.span_id,
                                         body |-> body, out |-> x.out])
          /\ pending' = x.out
    /\ spans' = SubSeq(spans, 1, Len(spans) - 1)
    /\ UNCHANGED <<regVars, ctxVars, held, setupLog, nCalls, nGets, thr, now, ingest, ioVars>>

\* the code around the scope catches the failure that left it
CatchFailure ==
    /\ pending # None
    /\ pending' = None
    /\ UNCHANGED <<regVars, sinks, ctxVars, held, setupLog, nCalls, nGets, thr,
                   spans, spanOut, now, ingest, ioVars>>

\* the wall clock is set, forwards or backwards
ClockSet ==
    /\ \E t \in Times \ {now} : now' = t
    /\ UNCHANGED <<regVars, sinks, ctxVars, held, setupLog, nCalls, nGets, thr,
                   spans, spanOut, pending, ingest, ioVars>>

NextSpan ==
    \/ \E cx \in SpanContexts : log_span_enter(None, cx)
    \/ \E b \in BodyOutcomes : log_span_exit(b)
    \/ CatchFailure

\* the backend after import (main.py lines 19 and 22), no request in flight
InitSpan ==
    /\ initialized = AppReg.initialized
    /\ rootLevel = AppReg.rootLevel
    /\ rootHandlers = AppReg.rootHandlers
    /\ loggerDict = AppReg.loggerDict
    /\ loggerObjs = AppReg.loggerObjs
    /\ cache = AppReg.cache
    /\ sinks = NoSinks
    /\ backendImportable = TRUE
    /\ ctxVar = [c \in Contexts |-> None]
    /\ reqPc = [r \in Requests |-> "new"]
    /\ reqId = [r \in Requests |-> None]
    /\ held = {[obj |-> AppLogger, name |-> "main", module |-> "BACKEND"]}
    /\ setupLog = <<[log_level |-> "INFO", console_output |-> TRUE]>>
    /\ nCalls = 0
    /\ nGets = 0
    /\ thr = [t \in Threads |-> ThreadIdle]
    /\ spans = <<>>
    /\ spanOut = <<>>
    /\ pending = None
    /\ now = 0
    /\ ingest = <<>>
    /\ InitIo

SpecSpan == InitSpan /\ [][NextSpan]_vars

\* the same with a caller-supplied logger and a wall clock that moves
NextSpanTimed ==
    \/ \E lg \in {None, Some(AppLogger)} : log_span_enter(lg, <<>>)
    \/ \E b \in BodyOutcomes : log_span_exit(b)
    \/ CatchFailure
    \/ ClockSet

SpecSpanTimed == InitSpan /\ [][NextSpanTimed]_vars

----------------------------------------------------------------------------
(* Frontend ingestion: log_frontend_event, backend/main.py lines 83-130 *)

FrontendLevels == {"error", "WARN", "info", "trace"}
FrontendContexts == { None,
                      Some([k \in {"auth_token"} |-> "s3cret"]),
                      Some([k \in {"page"} |-> "/cart"]) }
FrontendMessage == "Uncaught TypeError"

\* lines 105-106: the context without the keys that look sensitive
SafeContext(context) ==
    [k \in {x \in DOMAIN context :
                ~\E pat \in {"password", "token", "key", "secret"} :
                    Contains(Lower(x), pat)} |-> context[k]]

\* lines 97-111, for an entry without session_id and url
FullMessage(message, context) ==
    IF context # None /\ context[1] # <<>>
    THEN message \o " | Context: " \o JsonDumps(SafeContext(context[1]))
    ELSE message

\* lines 114-121: the logger method for the lower-cased level
FrontendLogLevel(level) ==
    IF level \in {"error", "critical"} THEN "ERROR"
    ELSE IF level \in {"warning", "warn"} THEN "WARNING"
    ELSE IF level = "info" THEN "INFO"
    ELSE "DEBUG"

\* POST /api/log/frontend with body {level, message, context}
log_frontend_event(level, context) ==
    /\ Len(ingest) < MaxIngest
    /\ LET r == GetLoggerReg(Reg, "main", "FRONTEND")
           frontend_logger == GetLoggerRet(Reg, "main", "FRONTEND")
       IN /\ SetReg(r)
          /\ sinks' = LoggerLogIn(r, sinks, frontend_logger,
                                  FrontendLogLevel(Lower(level)),
                                  FullMessage(FrontendMessage, context),
                                  NoExtra, Background)
    /\ ingest' = Append(ingest, [level |-> level, context |-> context,
                                 response |-> [status |-> "logged",
                                               level |-> Lower(level)]])
    /\ UNCHANGED <<ctxVars, held, setupLog, nCalls, nGets, thr,
                   spans, spanOut, pending, now, ioVars>>

NextFrontend ==
    \/ \E l \in FrontendLevels, cx \in FrontendContexts : log_frontend_event(l, cx)
    \/ \E h \in held : LogThrough(h, "INFO")

SpecFrontend == InitSpan /\ [][NextFrontend]_vars

----------------------------------------------------------------------------
(* Query engine: get_debug_logs, _generate_log_summary, get_request_trace, *)
(* backend/main.py lines 137-311                                           *)

\* A line of the JSON-lines file is the object the handler wrote, or, for a
\* line something else left in the file, [raw |-> its text].
RawLine(text) == [raw |-> text]
Truncated == RawLine("{\"ts\": \"2024-05-01T10:")     \* cut off inside the object
EmptyLine == RawLine("")
NotAnObject == RawLine("[]")                            \* valid JSON, a list

\* json.loads(line.strip()): a dict, another JSON value, or JSONDecodeError
JsonLoads(line) ==
    IF "raw" \notin DOMAIN line THEN [kind |-> "dict", value |-> line]
    ELSE IF line.raw = "[]" THEN [kind |-> "list", value |-> line]
    ELSE [kind |-> "JSONDecodeError", value |-> line]

\* entry.get(k, default)
EntryGet(entry, k, default) == IF k \in DOMAIN entry THEN entry[k] ELSE default

\* truth value of an optional str argument and of an optional int argument
Truthy(arg) == arg # None /\ arg[1] # ""
TruthyInt(arg) == arg # None /\ arg[1] # 0

\* lines 183-192: none of the supplied filters rejects the entry.  ts and
\* cutoff_time are compared as instants.
PassesFilters(entry, q, cutoff_time) ==
    /\ ~(cutoff_time # None /\ ("ts" \notin DOMAIN entry \/ entry.ts < cutoff_time[1]))
    /\ ~(Truthy(q.level) /\ Upper(EntryGet(entry, "level", "")) # Upper(q.level[1]))
    /\ ~(Truthy(q.request_id)
            /\ ~Contains(EntryGet(entry, "request_id", ""), q.request_id[1]))
    /\ ~(Truthy(q.module) /\ Upper(EntryGet(entry, "module", "")) # Upper(q.module[1]))
    /\ ~(Truthy(q.search)
            /\ ~Contains(Lower(EntryGet(entry, "msg", "")), Lower(q.search[1])))

\* a filter is evaluated on the entry, so entry.get is called
AnyFilter(q, cutoff_time) ==
    \/ cutoff_time # None
    \/ Truthy(q.level) \/ Truthy(q.request_id) \/ Truthy(q.module) \/ Truthy(q.search)

\* lines 173-194: the loop over reversed(lines), from line i down; logs is
\* what was collected so far.  A decoded value without .get raises
\* AttributeError as soon as a filter looks at it.
RECURSIVE ScanLogs(_, _, _, _, _)
ScanLogs(lines, i, logs, q, cutoff_time) ==
    IF i = 0 \/ Len(logs) >= q.last THEN [raised |-> FALSE, logs |-> logs]
    ELSE LET d == JsonLoads(lines[i])
         IN IF d.kind = "JSONDecodeError"
            THEN ScanLogs(lines, i - 1, logs, q, cutoff_time)
            ELSE IF d.kind # "dict"
            THEN IF AnyFilter(q, cutoff_time)
                 THEN [raised |-> TRUE, logs |-> <<>>]
                 ELSE ScanLogs(lines, i - 1, Append(logs, d.value), q, cutoff_time)
            ELSE IF PassesFilters(d.value, q, cutoff_time)
            THEN ScanLogs(lines, i - 1, Append(logs, d.value), q, cutoff_time)
            ELSE ScanLogs(lines, i - 1, logs, q, cutoff_time)

\* list(reversed(seq))
RECURSIVE Reversed(_)
Reversed(seq) == IF seq = <<>> THEN <<>> ELSE Append(Reversed(Tail(seq)), Head(seq))

\* str[:n] and list[:n]
Prefix(seq, n) == IF Len(seq) > n THEN SubSeq(seq, 1, n) ELSE seq

\* sorted(ops, key=duration_ms, reverse=True): stable, largest first
RECURSIVE SortedByDuration(_)
SortedByDuration(ops) ==
    IF ops = <<>> THEN <<>>
    ELSE LET rest == SortedByDuration(SubSeq(ops, 1, Len(ops) - 1))
             x == ops[Len(ops)]
             k == Cardinality({j \in 1..Len(rest) : rest[j].duration_ms >= x.duration_ms})
         IN SubSeq(rest, 1, k) \o <<x>> \o SubSeq(rest, k + 1, Len(rest))

\* the entries of logs that satisfy Test, in order
RECURSIVE Select(_, _)
Select(logs, keep) ==
    IF logs = <<>> THEN <<>>
    ELSE (IF Head(logs) \in keep THEN <<Head(logs)>> ELSE <<>>) \o Select(Tail(logs), keep)

\* _generate_log_summary(logs), for logs that are all dicts
GenerateLogSummary(logs) ==
    LET entries == {logs[i] : i \in 1..Len(logs)}
        request_ids == {e.request_id : e \in
                            {x \in entries : /\ "request_id" \in DOMAIN x
                                             /\ x.request_id # ""
                                             /\ x.request_id # "----"}}
        errors == Select(logs, {e \in entries : EntryGet(e, "level", "") = "ERROR"})
        slow == Select(logs, {e \in entries : EntryGet(e, "duration_ms", 0) > 1000})
        ErrorItem(e) == [ts |-> EntryGet(e, "ts", None),
                         msg |-> Prefix(EntryGet(e, "msg", ""), 200),
                         module |-> EntryGet(e, "module", None),
                         request_id |-> EntryGet(e, "request_id", None)]
        SlowItem(e) == [ts |-> EntryGet(e, "ts", None),
                        operation |-> EntryGet(e, "span_op", None),
                        duration_ms |-> e.duration_ms,
                        request_id |-> EntryGet(e, "request_id", None)]
    IN [total_entries |-> Len(logs),
        level_distribution |->
            [l \in {EntryGet(e, "level", "UNKNOWN") : e \in entries} |->
                Cardinality({i \in 1..Len(logs) : EntryGet(logs[i], "level", "UNKNOWN") = l})],
        module_distribution |->
            [m \in {EntryGet(e, "module", "UNKNOWN") : e \in entries} |->
                Cardinality({i \in 1..Len(logs) : EntryGet(logs[i], "module", "UNKNOWN") = m})],
        unique_requests |-> Cardinality(request_ids),
        error_count |-> Len(errors),
        recent_errors |-> Prefix([i \in 1..Len(errors) |-> ErrorItem(errors[i])], 5),
        slow_operations |->
            Prefix(SortedByDuration([i \in 1..Len(slow) |-> SlowItem(slow[i])]), 5),
        time_range |-> [oldest |-> EntryGet(logs[1], "ts", None),
                        newest |-> EntryGet(logs[Len(logs)], "ts", None)]]

\* the response of GET /api/debug/logs on a file holding `lines`, when
\* datetime.utcnow() returns t.  q: last, level, request_id, module, search,
\* since_minutes, include_summary.
GetDebugLogs(lines, q, t) ==
    LET cutoff_time == IF TruthyInt(q.since_minutes)
                       THEN Some(t - q.since_minutes[1]) ELSE None
        scan == ScanLogs(lines, Len(lines), <<>>, q, cutoff_time)
        logs == Reversed(scan.logs)
        summarised == q.include_summary /\ logs # <<>>
    IN IF scan.raised \/ (summarised /\ \E i \in 1..Len(logs) : "raw" \in DOMAIN logs[i])
       THEN \* except Exception, lines 217-222
            [status |-> 500, logs |-> <<>>, count |-> 0, summary |-> None]
       ELSE [status |-> 200, logs |-> logs, count |-> Len(logs),
             summary |-> IF summarised THEN Some(GenerateLogSummary(logs)) ELSE None]

\* lines 289-295: the forward scan of get_request_trace, from line i on
RECURSIVE ScanTrace(_, _, _, _)
ScanTrace(lines, i, logs, request_id) ==
    IF i > Len(lines) THEN [raised |-> FALSE, logs |-> logs]
    ELSE LET d == JsonLoads(lines[i])
         IN IF d.kind = "JSONDecodeError"
            THEN ScanTrace(lines, i + 1, logs, request_id)
            ELSE IF d.kind # "dict"
            THEN [raised |-> TRUE, logs |-> <<>>]
            ELSE IF Contains(EntryGet(d.value, "request_id", ""), request_id)
            THEN ScanTrace(lines, i + 1, Append(logs, d.value), request_id)
            ELSE ScanTrace(lines, i + 1, logs, request_id)

RECURSIVE SumDurations(_)
SumDurations(logs) ==
    IF logs = <<>> THEN 0
    ELSE EntryGet(Head(logs), "duration_ms", 0) + SumDurations(Tail(logs))

\* the response of GET /api/debug/request/{request_id}
GetRequestTrace(lines, request_id) ==
    LET scan == ScanTrace(lines, 1, <<>>, request_id)
        logs == scan.logs
    IN IF scan.raised
       THEN [status |-> 500, request_id |-> request_id, logs |-> <<>>, count |-> 0,
             modules_involved |-> {}, has_errors |-> FALSE, total_duration_ms |-> 0]
       ELSE [status |-> 200, request_id |-> request_id, logs |-> logs,
             count |-> Len(logs),
             modules_involved |-> {logs[i].module :
                                     i \in {j \in 1..Len(logs) : "module" \in DOMAIN logs[j]
                                                                 /\ logs[j].module # ""}},
             has_errors |-> \E i \in 1..Len(logs) : EntryGet(logs[i], "level", "") = "ERROR",
             total_duration_ms |-> SumDurations(logs)]

NoFilters == [last |-> 50, level |-> None, request_id |-> None, module |-> None,
              search |-> None, since_minutes |-> None, include_summary |-> TRUE]

\* main.py 158-159 and 282-283: the early return when the file is missing
NoLogsFound == [status |-> 200, logs |-> <<>>, message |-> "No logs found"]

\* GET /api/debug/logs is served
get_debug_logs(q) ==
    /\ resp = None
    /\ resp' = Some([op |-> "logs", q |-> q, at |-> now, n |-> Len(sinks.json),
                     out |-> IF ~PathExists("json")
                             THEN [count |-> 0, summary |-> None] @@ NoLogsFound
                             ELSE GetDebugLogs(sinks.json, q, now)])
    /\ UNCHANGED <<regVars, sinks, ctxVars, callVars, now,
                   emit, hlock, handled, follow, partial, calls, logDir>>

\* GET /api/debug/request/{request_id} is served
get_request_trace(request_id) ==
    /\ resp = None
    /\ resp' = Some([op |-> "trace", q |-> request_id, at |-> now,
                     n |-> Len(sinks.json),
                     out |-> IF ~PathExists("json")
                             THEN [request_id |-> request_id] @@ NoLogsFound
                             ELSE GetRequestTrace(sinks.json, request_id)])
    /\ UNCHANGED <<regVars, sinks, ctxVars, callVars, now,
                   emit, hlock, handled, follow, partial, calls, logDir>>

----------------------------------------------------------------------------
(* Queries on a file of any content *)

\* objects the sink wrote earlier, with the fields the filters look at
FileEntries ==
    { [ts |-> 0, level |-> "ERROR", module |-> "BACKEND", request_id |-> "xabcx",
       logger |-> "main", msg |-> "Payment failed"],
      [ts |-> 0, level |-> "INFO", module |-> "FRONTEND", request_id |-> "r2",
       logger |-> "main", msg |-> "page loaded"] }
FileLines == FileEntries \cup {Truncated, EmptyLine, NotAnObject}

\* the arguments of the queries made
QueryArgs ==
    [last : {1, 2},
     level : {None, Some("error")},
     request_id : {None, Some("ABC"), Some("r2")},
     module : {None, Some("backend")},
     search : {None, Some("FAILED")},
     since_minutes : {None},
     include_summary : BOOLEAN]
TraceArgs == {"abc", "r2"}

\* the file gets one more line, before the query reads it
FileAppend(line) ==
    /\ resp = None
    /\ Len(sinks.json) < MaxLines
    /\ sinks' = [sinks EXCEPT !.json = Append(@, line)]
    /\ UNCHANGED <<regVars, ctxVars, callVars, now, ioVars>>

NextQuery ==
    \/ \E line \in FileLines : FileAppend(line)
    \/ \E q \in QueryArgs : get_debug_logs(q)
    \/ \E id \in TraceArgs : get_request_trace(id)

SpecQuery == InitSpan /\ [][NextQuery]_vars

----------------------------------------------------------------------------
(* Requests that log, and the queries made on what they wrote *)

\* what the handler of request r logs when it fails (logger.error)
FailMsg(r) == "Request failed for " \o r

\* the route handler of request r logs an error in the request's context
HandlerFail(r) ==
    /\ reqPc[r] = "active"
    /\ Len(sinks.json) < MaxRecords
    /\ sinks' = LoggerLog(AppLogger, "ERROR", FailMsg(r), NoExtra, r)
    /\ UNCHANGED <<regVars, ctxVars, apiVars>>

\* the ids a trace can be asked for: the path parameter is never empty
TraceIds == (HeaderIds \cup UuidPool) \ {""}

NextTrace ==
    \/ \E r \in Requests : Dispatch(r)
    \/ \E r \in Requests : HandlerLog(r)
    \/ \E r \in Requests : HandlerFail(r)
    \/ \E r \in Requests : RequestEnd(r)
    \/ BackgroundLog
    \/ \E id \in TraceIds : get_request_trace(id)
    \/ \E n \in 1..MaxRecords : get_debug_logs([NoFilters EXCEPT !.last = n])

InitTrace == InitCtx /\ backendImportable

SpecTrace == InitTrace /\ [][NextTrace]_vars

----------------------------------------------------------------------------
(* The backend logs, and its log is summarised *)

\* the backend logs its next record, outside a request
AppLog(level) ==
    /\ nCalls < MaxAppLogs
    /\ nCalls' = nCalls + 1
    /\ sinks' = LoggerLog(AppLogger, level, Msg(nCalls + 1, "BACKEND"), NoExtra,
                          Background)
    /\ UNCHANGED <<spanVars, regVars, ctxVars, held, setupLog, nGets, thr>>

NextSummary ==
    \/ \E l \in {"INFO", "ERROR"} : AppLog(l)
    \/ \E lv \in {None, Some("ERROR")} : get_debug_logs([NoFilters EXCEPT !.level = lv])

SpecSummary == InitSpan /\ [][NextSummary]_vars

----------------------------------------------------------------------------
(* Threads that log at the same time.  logging.Handler.handle runs the     *)
(* handler's filter, takes the handler's lock, calls emit and releases the *)
(* lock; JSONLineHandler.emit builds the entry, then opens the file, writes *)
(* the line with one write call, and closes it.                            *)

\* a handler that ignores its lock
LockIgnored(t) == TRUE

\* Handler.acquire of the JSON handler can return in thread t
HandlerLockFree(t) == hlock = None

\* the handlers of the root logger of one kind, and of every other kind
HandlersOfKind(kind) == SelectSeq(rootHandlers, LAMBDA h : h.kind = kind)
HandlersNotOfKind(kind) == SelectSeq(rootHandlers, LAMBDA h : h.kind # kind)

\* thread t calls logger.info / logger.error on the backend's logger: the
\* record passes the logger's filters and the console and text handlers,
\* and arrives at the JSON handler, whose filter attaches the request id
E_Call(t, level) ==
    /\ emit[t].pc = "idle"
    /\ nCalls < MaxEmits
    /\ nCalls' = nCalls + 1
    /\ LET rec0 == [levelname |-> level, name |-> loggerObjs[AppLogger].name,
                    msg |-> Msg(nCalls + 1, t)]
           rec == LoggerFilters(loggerObjs[AppLogger].filters, rec0)
           json == HandlersOfKind("json")
       IN /\ LevelNo(level) >= rootLevel
          /\ sinks' = CallHandlers(sinks, HandlersNotOfKind("json"), rec, Background)
          /\ emit' = [emit EXCEPT ![t] =
                        IF json # <<>> /\ LevelNo(level) >= json[1].level
                        THEN [pc |-> "acquire", rec |-> RequestIDFilter(rec, Background),
                              entry |-> <<>>]
                        ELSE EmitIdle]
    /\ UNCHANGED <<regVars, ctxVars, held, setupLog, nGets, thr, spans, spanOut,
                   pending, now, ingest, resp, hlock, handled, follow, partial, calls, logDir>>

\* Handler.handle: self.acquire()
E_Acquire(t) ==
    /\ emit[t].pc = "acquire"
    /\ HandlerLockFree(t)
    /\ hlock' = Some(t)
    /\ handled' = Append(handled, emit[t].rec.msg)
    /\ emit' = [emit EXCEPT ![t].pc = "entry"]
    /\ UNCHANGED <<regVars, sinks, ctxVars, callVars, now, resp, follow, partial, calls, logDir>>

\* emit, lines 86-113: log_entry, with ts read from the clock
E_Entry(t) ==
    /\ emit[t].pc = "entry"
    /\ emit' = [emit EXCEPT ![t].pc = "write",
                            ![t].entry = JSONLineHandler_emit(emit[t].rec)]
    /\ UNCHANGED <<regVars, sinks, ctxVars, callVars, now, resp, hlock, handled,
                   follow, partial, calls, logDir>>

\* emit, lines 115-116, and Handler.handle's self.release()
E_Write(t) ==
    /\ emit[t].pc = "write"
    /\ sinks' = [sinks EXCEPT !.json = FileWrite(@, emit[t].entry)]
    /\ hlock' = None
    /\ emit' = [emit EXCEPT ![t] = EmitIdle]
    /\ UNCHANGED <<regVars, ctxVars, callVars, now, resp, handled, follow, partial, calls, logDir>>

NextEmit ==
    \/ \E t \in Threads : E_Call(t, "INFO")
    \/ \E t \in Threads : E_Acquire(t)
    \/ \E t \in Threads : E_Entry(t)
    \/ \E t \in Threads : E_Write(t)
    \/ ClockSet
    \/ \E n \in 1..2 : get_debug_logs([NoFilters EXCEPT !.last = n])

SpecEmit == InitSpan /\ [][NextEmit]_vars

----------------------------------------------------------------------------
(* Follow mode: view_json_logs(..., follow=True), logs/view_logs.py lines  *)
(* 110-137, reading the file while another process appends to it.  pos is  *)
(* the number of lines readline has started on; mid tells that the reader  *)
(* stands inside line pos, whose rest was not visible yet.                 *)

FollowLines ==
    { [ts |-> 0, level |-> "ERROR", module |-> "BACKEND", request_id |-> "u1",
       logger |-> "main", msg |-> "Payment failed"],
      [ts |-> 0, level |-> "INFO", module |-> "BACKEND", request_id |-> "u1",
       logger |-> "main", msg |-> "page loaded"],
      Truncated, NotAnObject }

\* --level / --request-id / --search of the command line
FollowFilters ==
    { [level |-> None, request_id |-> None, search |-> None],
      [level |-> Some("error"), request_id |-> None, search |-> None] }

\* should_include(entry), lines 110-118
should_include(entry, f) ==
    /\ ~(Truthy(f.level) /\ Upper(EntryGet(entry, "level", "")) # Upper(f.level[1]))
    /\ ~(Truthy(f.request_id)
            /\ ~Contains(EntryGet(entry, "request_id", ""), f.request_id[1]))
    /\ ~(Truthy(f.search)
            /\ ~Contains(Lower(EntryGet(entry, "msg", "")), Lower(f.search[1])))

\* lines 128-133 for the text readline returned, given as the line it is the
\* whole of: the follow-mode state afterwards.  A decoded value without .get
\* raises AttributeError in should_include or format_entry, which nothing
\* in the loop catches.
FollowProcess(fl, line) ==
    LET d == JsonLoads(line)
    IN IF d.kind = "JSONDecodeError" THEN fl
       ELSE IF d.kind # "dict" THEN [fl EXCEPT !.pc = "crashed"]
       ELSE IF should_include(d.value, fl) THEN [fl EXCEPT !.printed = Append(@, d.value)]
       ELSE fl

\* the command is started: the file is missing and the command ends
\* (lines 90-92), or open, f.seek(0, 2)
follow_start(f) ==
    /\ follow.pc = "off"
    /\ follow' = IF ~PathExists("json") THEN [FollowOff EXCEPT !.pc = "not found"]
                 ELSE [pc |-> "polling", source |-> "json",
                       start |-> Len(sinks.json), pos |-> Len(sinks.json),
                       mid |-> (partial # "whole"), printed |-> <<>>,
                       level |-> f.level, request_id |-> f.request_id,
                       search |-> f.search]
    /\ UNCHANGED <<regVars, sinks, ctxVars, callVars, now, resp, emit, hlock, handled,
                   partial, calls, logDir>>

\* one turn of the loop: readline, then the line is handled or the loop sleeps
follow_poll ==
    /\ follow.pc = "polling"
    /\ follow.source = "json"
    /\ follow' =
        IF follow.mid
        THEN IF follow.pos = Len(sinks.json) /\ partial # "whole"
             THEN follow                                \* '' : time.sleep(0.1)
             ELSE [follow EXCEPT !.mid = FALSE]          \* the rest: JSONDecodeError
        ELSE IF follow.pos = Len(sinks.json)
        THEN follow                                     \* '' : time.sleep(0.1)
        ELSE LET line == sinks.json[follow.pos + 1]
                 cut == IF follow.pos + 1 = Len(sinks.json) THEN partial ELSE "whole"
                 fl == [follow EXCEPT !.pos = @ + 1, !.mid = (cut # "whole")]
             IN IF cut = "inside" THEN fl               \* half a line: JSONDecodeError
                ELSE FollowProcess(fl, line)
    /\ UNCHANGED <<regVars, sinks, ctxVars, callVars, now, resp, emit, hlock, handled,
                   partial, calls, logDir>>

\* Ctrl+C: KeyboardInterrupt, lines 136-137
follow_interrupt ==
    /\ follow.pc = "polling"
    /\ follow' = [follow EXCEPT !.pc = "stopped"]
    /\ UNCHANGED <<regVars, sinks, ctxVars, callVars, now, resp, emit, hlock, handled,
                   partial, calls, logDir>>

\* another process appends a line; the reader sees all of it at once
\* ("whole"), or first a part that ends inside the object ("inside") or just
\* before the newline ("newline")
W_Append(line, seen) ==
    /\ partial = "whole"
    /\ Len(sinks.json) < MaxFollowLines
    /\ sinks' = [sinks EXCEPT !.json = Append(@, line)]
    /\ partial' = seen
    /\ UNCHANGED <<regVars, ctxVars, callVars, now, resp, emit, hlock, handled, follow, calls, logDir>>

\* the rest of the appended line becomes visible
W_Complete ==
    /\ partial # "whole"
    /\ partial' = "whole"
    /\ UNCHANGED <<regVars, sinks, ctxVars, callVars, now, resp, emit, hlock, handled,
                   follow, calls, logDir>>

NextFollow ==
    \/ \E f \in FollowFilters : follow_start(f)
    \/ follow_poll
    \/ follow_interrupt
    \/ \E line \in FollowLines, seen \in {"whole", "inside", "newline"} :
            W_Append(line, seen)
    \/ W_Complete

SpecFollow == InitSpan /\ [][NextFollow]_vars

----------------------------------------------------------------------------
(* A sink layer whose JSON-lines sink can fail: JSONLineHandler.emit,      *)
(* shared_logging.py lines 84-119                                          *)

\* what happens inside emit's try block for one record: nothing goes wrong,
\* json.dumps raises (TypeError, ValueError), or open/write raises OSError
\* and leaves nothing of the line in the file
SinkFaults == {"none", "serialize", "write"}

\* emit with the try statement's except clause left out: the failure leaves
\* emit, Handler.handle and the logging call
EmitUncaught(file, rec, fault) ==
    IF fault = "none"
    THEN [file |-> FileWrite(file, JSONLineHandler_emit(rec)), reported |-> FALSE,
          raised |-> FALSE]
    ELSE [file |-> file, reported |-> FALSE, raised |-> TRUE]

\* emit, lines 84-119: the line is appended, or the failure is caught by
\* "except Exception" and handed to handleError, which reports it on stderr
\* and returns
EmitToFile(file, rec, fault) ==
    IF fault = "none"
    THEN [file |-> FileWrite(file, JSONLineHandler_emit(rec)), reported |-> FALSE,
          raised |-> FALSE]
    ELSE [file |-> file, reported |-> TRUE, raised |-> FALSE]

\* Logger.callHandlers when the JSON handler's emit meets `fault`: st is the
\* sinks, whether handleError reported, and whether an exception is
\* propagating (the handlers after the one that raised are not called)
RECURSIVE CallHandlersFaulty(_, _, _, _, _)
CallHandlersFaulty(st, hs, rec, c, fault) ==
    IF hs = <<>> \/ st.raised THEN st
    ELSE LET h == Head(hs)
             next ==
               IF LevelNo(rec.levelname) < h.level THEN st
               ELSE IF h.kind = "json"
               THEN LET x == EmitToFile(st.sinks.json, RequestIDFilter(rec, c), fault)
                    IN [sinks |-> [st.sinks EXCEPT !.json = x.file],
                        reported |-> x.reported, raised |-> x.raised]
               ELSE [st EXCEPT !.sinks = HandlerHandle(st.sinks, h, rec, c)]
         IN CallHandlersFaulty(next, Tail(hs), rec, c, fault)

\* logger.debug/info/error(msg) on logger object obj when the JSON handler's
\* emit meets `fault`
LoggerLogFaulty(r, s, obj, level, msg, c, fault) ==
    IF LevelNo(level) < r.rootLevel
    THEN [sinks |-> s, reported |-> FALSE, raised |-> FALSE]
    ELSE LET rec == [levelname |-> level, name |-> r.loggerObjs[obj].name,
                     msg |-> msg]
         IN CallHandlersFaulty([sinks |-> s, reported |-> FALSE, raised |-> FALSE],
                               r.rootHandlers,
                               LoggerFilters(r.loggerObjs[obj].filters, rec), c, fault)

\* the text of the n-th call
CallMsg(n) == "record " \o ToString(n)

\* a caller logs through a handle it holds, and the JSON sink works or fails
EmitThrough(h, level, fault) ==
    /\ Len(calls) < MaxSinkCalls
    /\ LET x == LoggerLogFaulty(Reg, sinks, h.obj, level, CallMsg(Len(calls) + 1),
                                Background, fault)
       IN /\ sinks' = x.sinks
          /\ calls' = Append(calls, [obj |-> h.obj, level |-> level,
                                     msg |-> CallMsg(Len(calls) + 1),
                                     fault |-> fault, reported |-> x.reported,
                                     out |-> IF x.raised THEN "raised"
                                             ELSE "returned"])
    /\ UNCHANGED <<regVars, ctxVars, callVars, now, resp, emit, hlock, handled,
                   follow, partial, logDir>>

NextSink ==
    \/ \E l \in LogLevelArgs, co \in BOOLEAN : setup_centralized_logging(l, co)
    \/ get_logger("main", "BACKEND")
    \/ \E h \in held, l \in CallLevels, ft \in SinkFaults : EmitThrough(h, l, ft)

SpecSink == InitApi /\ [][NextSink]_vars

----------------------------------------------------------------------------
(* The diagnostic summary: logs/ai_debug_summary.py *)

\* parse_logs(hours), lines 31-49, when datetime.utcnow() returns t: nothing
\* when the file is missing, else the entries not older than the cutoff, in
\* file order.  ts and cutoff_str are
\* compared as the instants they denote, in seconds.  A line that does not
\* decode is skipped; one that decodes to something without .get raises
\* AttributeError, which the function does not catch.
parse_logs(lines, hours, t) ==
    LET cutoff == t - hours * 3600
        Kept(line) == /\ JsonLoads(line).kind = "dict"
                      /\ "ts" \in DOMAIN line
                      /\ line.ts >= cutoff
    IN IF ~PathExists("json")
       THEN [raised |-> FALSE, logs |-> <<>>]
       ELSE IF \E i \in 1..Len(lines) :
                  JsonLoads(lines[i]).kind \notin {"dict", "JSONDecodeError"}
       THEN [raised |-> TRUE, logs |-> <<>>]
       ELSE [raised |-> FALSE, logs |-> SelectSeq(lines, Kept)]

\* analyze_errors, lines 54 and 68: total_errors
TotalErrors(logs) ==
    Cardinality({i \in 1..Len(logs) : EntryGet(logs[i], "level", None) = "ERROR"})

\* the thresholds with ">=" in the place of ">"
HealthAtLeast(total_errors, total) ==
    IF 10 * total_errors >= total THEN "CRITICAL"
    ELSE IF 20 * total_errors >= total THEN "WARNING"
    ELSE IF total_errors > 0 THEN "DEGRADED"
    ELSE "HEALTHY"

\* lines 187-195.  error_rate is the double nearest total_errors / total; for
\* a file of any size that can exist it is above the double 0.1 exactly when
\* 10 * total_errors > total, and above 0.05 exactly when
\* 20 * total_errors > total.
Health(total_errors, total) ==
    IF 10 * total_errors > total THEN "CRITICAL"
    ELSE IF 20 * total_errors > total THEN "WARNING"
    ELSE IF total_errors > 0 THEN "DEGRADED"
    ELSE "HEALTHY"

\* f"{error_rate:.1%}", line 207: the rate times 100 with one decimal,
\* rounded to the nearest, a tie to the even digit
FormatPercent(total_errors, total) ==
    LET q == (1000 * total_errors) \div total
        r == (1000 * total_errors) % total
        tenths == IF 2 * r > total \/ (2 * r = total /\ q % 2 = 1) THEN q + 1 ELSE q
    IN ToString(tenths \div 10) \o "." \o ToString(tenths % 10) \o "%"

\* generate_summary(hours) on a file holding `lines`, when datetime.utcnow()
\* returns t: status, overview and the error count
GenerateSummary(lines, hours, t) ==
    LET parsed == parse_logs(lines, hours, t)
        logs == parsed.logs
        request_ids == {logs[i].request_id :
                            i \in {j \in 1..Len(logs) :
                                      /\ "request_id" \in DOMAIN logs[j]
                                      /\ logs[j].request_id # ""
                                      /\ logs[j].request_id # "----"}}
    IN IF parsed.raised THEN [raised |-> "AttributeError"]
       ELSE IF logs = <<>>
       THEN [status |-> "NO_LOGS",
             message |-> "No logs found in the last " \o ToString(hours) \o " hours",
             log_file_exists |-> PathExists("json")]
       ELSE [status |-> Health(TotalErrors(logs), Len(logs)),
             total_logs |-> Len(logs),
             unique_requests |-> Cardinality(request_ids),
             error_rate |-> FormatPercent(TotalErrors(logs), Len(logs)),
             total_errors |-> TotalErrors(logs)]

\* python logs/ai_debug_summary.py --hours N
generate_summary(hours) ==
    /\ resp = None
    /\ resp' = Some([op |-> "summary", q |-> hours, at |-> now, n |-> Len(sinks.json),
                     out |-> GenerateSummary(sinks.json, hours, now)])
    /\ UNCHANGED <<regVars, sinks, ctxVars, callVars, now,
                   emit, hlock, handled, follow, partial, calls, logDir>>

\* the instant the summary is asked for, and the age of the recent records
SummaryTime == 25 * 3600
RecentAge == 2 * 3600

\* a file with one ERROR record of 25 hours ago and n records of two hours
\* ago, e of them ERROR
LogRecord(n, level, ts) ==
    [ts |-> ts, level |-> level, module |-> "BACKEND", request_id |-> "no-request-id",
     logger |-> "main", msg |-> CallMsg(n)]
WindowFile(e, n) ==
    <<LogRecord(0, "ERROR", 0)>>
    \o [i \in 1..n |-> LogRecord(i, IF i <= e THEN "ERROR"
                                    ELSE IF i % 2 = 0 THEN "INFO" ELSE "WARNING",
                                 SummaryTime - RecentAge)]

\* the windows summarised: every split of up to MaxWindow records, and the
\* end-to-end scenarios of 100 records
Windows == {w \in [e : 0..MaxWindow, n : 0..MaxWindow] : w.e <= w.n}
           \cup [e : {10, 12}, n : {100}]

InitHealth ==
    /\ initialized = AppReg.initialized
    /\ rootLevel = AppReg.rootLevel
    /\ rootHandlers = AppReg.rootHandlers
    /\ loggerDict = AppReg.loggerDict
    /\ loggerObjs = AppReg.loggerObjs
    /\ cache = AppReg.cache
    /\ \E w \in Windows : sinks = [NoSinks EXCEPT !.json = WindowFile(w.e, w.n)]
    /\ backendImportable = TRUE
    /\ ctxVar = [c \in Contexts |-> None]
    /\ reqPc = [r \in Requests |-> "new"]
    /\ reqId = [r \in Requests |-> None]
    /\ held = {[obj |-> AppLogger, name |-> "main", module |-> "BACKEND"]}
    /\ setupLog = <<[log_level |-> "INFO", console_output |-> TRUE]>>
    /\ nCalls = 0
    /\ nGets = 0
    /\ thr = [t \in Threads |-> ThreadIdle]
    /\ spans = <<>>
    /\ spanOut = <<>>
    /\ pending = None
    /\ now = SummaryTime
    /\ ingest = <<>>
    /\ InitIo

NextHealth == \E hours \in {1, 24} : generate_summary(hours)

SpecHealth == InitHealth /\ [][NextHealth]_vars

----------------------------------------------------------------------------
(* Exception capture: log_exception_context, shared_logging.py 272-334 *)

\* the variables a caller's frame can hold: repr is what repr(v) returns, or
\* None when it raises
LocalValues ==
    ("order_id" :> [repr |-> Some("123")])
    @@ ("payload" :> [repr |-> Some("'abcdefgh'")])
    @@ ("broken" :> [repr |-> None])
    @@ ("api_key" :> [repr |-> Some("'sk-1'")])
    @@ ("AuthHeader" :> [repr |-> Some("'Bearer x'")])
    @@ ("_secret" :> [repr |-> Some("'s'")])

\* frame.f_locals of the callers: up to MaxLocals of these variables
FrameLocals ==
    {[k \in S |-> LocalValues[k]] :
        S \in {T \in SUBSET DOMAIN LocalValues : Cardinality(T) <= MaxLocals}}

\* line 304
SensitivePatterns == {"password", "token", "key", "secret", "credential", "auth"}

\* k.startswith('_')
IsPrivate(k) == Len(k) >= 1 /\ SubSeq(k, 1, 1) = "_"

\* any(pattern in k.lower() for pattern in sensitive_patterns)
IsSensitive(k) == \E pattern \in SensitivePatterns : Contains(Lower(k), pattern)

\* lines 313-320 for one variable
ReprSafe(v, max_local_repr) ==
    IF v.repr = None THEN "[repr failed]"
    ELSE IF Len(v.repr[1]) > max_local_repr
    THEN SubSeq(v.repr[1], 1, max_local_repr) \o "...[truncated]"
    ELSE v.repr[1]

\* the loop of lines 305-320 without the test on sensitive_patterns
LocalsUnredacted(f_locals, include_locals, max_local_repr) ==
    IF ~include_locals THEN <<>>
    ELSE [k \in {n \in DOMAIN f_locals : ~IsPrivate(n)} |->
            ReprSafe(f_locals[k], max_local_repr)]

\* lines 302-320: locals_safe
LocalsSafe(f_locals, include_locals, max_local_repr) ==
    IF ~include_locals THEN <<>>
    ELSE [k \in {n \in DOMAIN f_locals : ~IsPrivate(n)} |->
            IF IsSensitive(k) THEN "[REDACTED]"
            ELSE ReprSafe(f_locals[k], max_local_repr)]

\* lines 323-328: context.  handling is the exception being handled when
\* the function is called, if any
ExceptionContext(exc, f_locals, include_locals, max_local_repr, handling) ==
    LET locals_safe == LocalsSafe(f_locals, include_locals, max_local_repr)
    IN [exception_type |-> Some(exc.type),
        exception_message |-> Some(exc.message),
        locals |-> IF locals_safe # <<>> THEN Some(locals_safe) ELSE None,
        traceback |-> Some(FormatException(handling))]

\* log_exception_context(logger, exc, message, include_locals, max_local_repr)
\* called from a frame with f_locals; inExcept says whether the call is made inside
\* the except block that handles exc
log_exception_context(h, exc, f_locals, include_locals, max_local_repr, inExcept) ==
    /\ Len(calls) < MaxCaptures
    /\ LET handling == IF inExcept THEN Some(exc) ELSE None
           message == "capture " \o ToString(Len(calls) + 1)
           msg == message \o " | " \o exc.type \o ": " \o exc.message
           extra == [log_context |->
                        Some(ExceptionContext(exc, f_locals, include_locals,
                                              max_local_repr, handling)),
                     exc_info |-> Some(handling)]
       IN /\ sinks' = LoggerLog(h.obj, "ERROR", msg, extra, Background)
          /\ calls' = Append(calls, [msg |-> msg, f_locals |-> f_locals,
                                     include_locals |-> include_locals,
                                     max_local_repr |-> max_local_repr,
                                     inExcept |-> inExcept])
    /\ UNCHANGED <<regVars, ctxVars, callVars, now, resp, emit, hlock, handled,
                   follow, partial, logDir>>

\* the values of max_local_repr the callers pass: the default and a small one
ReprLimits == {3, 200}

NextCapture ==
    \E h \in held, f_locals \in FrameLocals, il \in BOOLEAN, mx \in ReprLimits,
       ie \in BOOLEAN :
        log_exception_context(h, ValueError, f_locals, il, mx, ie)

SpecCapture == InitSpan /\ [][NextCapture]_vars

----------------------------------------------------------------------------
(* The command-line viewer without --follow: logs/view_logs.py 138-152 *)

\* all_lines[-n:]
LastLines(seq, n) ==
    IF n = 0 \/ n >= Len(seq) THEN seq ELSE SubSeq(seq, Len(seq) - n + 1, Len(seq))

\* lines 142-152 on a file holding `lines`: what is printed, and whether the
\* command ends with an AttributeError (a decoded value without .get reaches
\* a filter in should_include, or format_entry)
ViewJsonLogs(lines, n, f) ==
    LET window == LastLines(lines, n * 2)
        decoded == SelectSeq(window, LAMBDA l : JsonLoads(l).kind # "JSONDecodeError")
        filtered == Truthy(f.level) \/ Truthy(f.request_id) \/ Truthy(f.search)
        IsDict(l) == JsonLoads(l).kind = "dict"
        entries == SelectSeq(decoded, LAMBDA l : ~IsDict(l) \/ should_include(l, f))
        shown == LastLines(entries, n)
        bad == {i \in 1..Len(shown) : ~IsDict(shown[i])}
        firstBad == CHOOSE i \in bad : \A j \in bad : i <= j
    IN IF filtered /\ \E i \in 1..Len(decoded) : ~IsDict(decoded[i])
       THEN [raised |-> TRUE, printed |-> <<>>]
       ELSE IF bad # {}
       THEN [raised |-> TRUE, printed |-> SubSeq(shown, 1, firstBad - 1)]
       ELSE [raised |-> FALSE, printed |-> shown]

\* view_logs.py 44-46 and 90-92: the message printed for a missing file
NotFound(file) ==
    [raised |-> FALSE, printed |-> <<>>,
     message |-> (IF file = "json" THEN "JSON log" ELSE "Log")
                    \o " file not found: " \o FileName(file)]

\* DETAILED_FORMAT: a line of application.log as text, without its asctime
TextLine(l) ==
    "| " \o l.level \o " | [" \o l.module \o "] | " \o l.request_id \o " | "
         \o l.name \o " | " \o l.msg

\* print_filtered_lines, lines 50-56: whether a line is printed
TextInclude(l, f) ==
    /\ ~(Truthy(f.level) /\ ~Contains(Upper(TextLine(l)), "| " \o f.level[1]))
    /\ ~(Truthy(f.request_id) /\ ~Contains(TextLine(l), f.request_id[1]))
    /\ ~(Truthy(f.search) /\ ~Contains(Lower(TextLine(l)), Lower(f.search[1])))

\* lines 82-85 on a file holding `lines`: all_lines[-n:], filtered
ViewTextLogs(lines, n, f) ==
    [raised |-> FALSE,
     printed |-> SelectSeq(LastLines(lines, n), LAMBDA l : TextInclude(l, f))]

\* python logs/view_logs.py --lines n [--level ...] [--follow], while there
\* is no JSON file: the text file is missing and the command ends (lines
\* 44-46), or it follows the file from its end, or prints its last lines
view_text_logs(n, f, fw) ==
    /\ ~PathExists("json")
    /\ IF fw
       THEN /\ follow.pc = "off"
            /\ follow' = IF ~PathExists("main")
                         THEN [FollowOff EXCEPT !.pc = "not found", !.source = "main"]
                         ELSE [pc |-> "polling", source |-> "main",
                               start |-> Len(sinks.main), pos |-> Len(sinks.main),
                               mid |-> FALSE, printed |-> <<>>,
                               level |-> f.level, request_id |-> f.request_id,
                               search |-> f.search]
            /\ UNCHANGED resp
       ELSE /\ resp = None
            /\ resp' = Some([op |-> "text", q |-> n, at |-> now, n |-> Len(sinks.main),
                             out |-> IF ~PathExists("main") THEN NotFound("main")
                                     ELSE ViewTextLogs(sinks.main, n, f)])
            /\ UNCHANGED follow
    /\ UNCHANGED <<regVars, sinks, ctxVars, callVars, now,
                   emit, hlock, handled, partial, calls, logDir>>

\* one turn of the loop of lines 71-77: readline, then the line is printed
\* if the filters let it through, or the loop sleeps
text_follow_poll ==
    /\ follow.pc = "polling"
    /\ follow.source = "main"
    /\ follow' =
        IF follow.pos = Len(sinks.main) THEN follow
        ELSE LET line == sinks.main[follow.pos + 1]
             IN [follow EXCEPT !.pos = @ + 1,
                               !.printed = IF TextInclude(line, follow)
                                           THEN Append(@, line) ELSE @]
    /\ UNCHANGED <<regVars, sinks, ctxVars, callVars, now, resp, emit, hlock, handled,
                   partial, calls, logDir>>

\* python logs/view_logs.py --json --lines n [--level ...]
view_json_logs(n, f) ==
    /\ resp = None
    /\ resp' = Some([op |-> "tail", q |-> n, at |-> now, n |-> Len(sinks.json),
                     out |-> IF ~PathExists("json") THEN NotFound("json")
                             ELSE ViewJsonLogs(sinks.json, n, f)])
    /\ UNCHANGED <<regVars, sinks, ctxVars, callVars, now,
                   emit, hlock, handled, follow, partial, calls, logDir>>

----------------------------------------------------------------------------
(* All operations on one JSON-lines file *)

\* an operation that runs while the file has fewer than MaxSystemLines lines
WhileSmall(op) == Len(sinks.json) < MaxSystemLines /\ op

NextSystem ==
    \/ WhileSmall(AppLog("INFO"))
    \/ WhileSmall(log_span_enter(None, <<>>))
    \/ WhileSmall(\E b \in {x \in BodyOutcomes : x.kind # "returned"} : log_span_exit(b))
    \/ CatchFailure
    \/ WhileSmall(\E il \in BOOLEAN :
                    log_exception_context([obj |-> AppLogger], ValueError,
                                          [k \in {"order_id"} |-> LocalValues[k]],
                                          il, 200, TRUE))
    \/ WhileSmall(log_frontend_event("error", None))
    \/ get_debug_logs(NoFilters)
    \/ get_request_trace("no-request-id")
    \/ generate_summary(24)
    \/ view_json_logs(1, [level |-> None, request_id |-> None, search |-> None])
    \/ follow_start([level |-> None, request_id |-> None, search |-> None])
    \/ follow_poll
    \/ follow_interrupt

SpecSystem == InitSpan /\ [][NextSystem]_vars

----------------------------------------------------------------------------
(* Readers on a log directory that may lack its files *)

NoFilter == [level |-> None, request_id |-> None, search |-> None]

\* nothing is configured yet, and the log directory holds any of the two
\* source files, empty
InitMissing ==
    /\ initialized = Reg0.initialized
    /\ rootLevel = Reg0.rootLevel
    /\ rootHandlers = Reg0.rootHandlers
    /\ loggerDict = Reg0.loggerDict
    /\ loggerObjs = Reg0.loggerObjs
    /\ cache = Reg0.cache
    /\ sinks = NoSinks
    /\ backendImportable = TRUE
    /\ ctxVar = [c \in Contexts |-> None]
    /\ reqPc = [r \in Requests |-> "new"]
    /\ reqId = [r \in Requests |-> None]
    /\ held = {}
    /\ setupLog = <<>>
    /\ nCalls = 0
    /\ nGets = 0
    /\ thr = [t \in Threads |-> ThreadIdle]
    /\ spans = <<>>
    /\ spanOut = <<>>
    /\ pending = None
    /\ now = 0
    /\ ingest = <<>>
    /\ resp = None
    /\ emit = [t \in Threads |-> EmitIdle]
    /\ hlock = None
    /\ handled = <<>>
    /\ follow = FollowOff
    /\ partial = "whole"
    /\ calls = <<>>
    /\ logDir \in SUBSET {"main", "json"}

\* the application is imported (main.py 19-22) and logs; the endpoints are
\* served once it is; the command-line tools run at any time
NextMissing ==
    \/ get_logger("main", "BACKEND")
    \/ \E h \in held, l \in {"INFO", "ERROR"} : LogThrough(h, l)
    \/ initialized /\ get_debug_logs(NoFilters)
    \/ initialized /\ get_request_trace("no-request-id")
    \/ \E hours \in {1, 24} : generate_summary(hours)
    \/ view_json_logs(1, NoFilter)
    \/ \E fw \in BOOLEAN : view_text_logs(1, NoFilter, fw)
    \/ follow_start(NoFilter)
    \/ follow_poll
    \/ text_follow_poll
    \/ follow_interrupt

SpecMissing == InitMissing /\ [][NextMissing]_vars

----------------------------------------------------------------------------
(* Claims about the correlation context *)

\* everything written so far, by any sink
Written == {sinks[k][i] : k \in {"json"}, i \in 1..Len(sinks.json)}
           \cup {sinks.console[i] : i \in 1..Len(sinks.console)}
           \cup {sinks.main[i] : i \in 1..Len(sinks.main)}
           \cup {sinks.error[i] : i \in 1..Len(sinks.error)}

\* C1: every record a request's handler emits, in any sink, carries the id
\* its middleware bound, and never the different id another request bound.
C1_RecordCarriesBoundId ==
    \A e \in Written : \A r \in Requests :
        e.msg = RootMsg(r) =>
            /\ e.request_id = reqId[r][1]
            /\ \A q \in Requests \ {r} :
                (reqId[q] # None /\ reqId[q] # reqId[r]) => e.request_id # reqId[q][1]

\* C2: a record emitted where no id was ever set is written with the
\* sentinel "----" by every sink.
C2_UnsetIsSentinel ==
    \A e \in Written : e.msg = BgMsg => e.request_id = "----"

----------------------------------------------------------------------------
(* Claims about the registry and the sink layer *)

SinkKinds == {"console", "main", "error", "json"}

\* no sink holds the record of one log call twice
WrittenOnce ==
    \A k \in SinkKinds : \A i, j \in 1..Len(sinks[k]) :
        sinks[k][i].msg = sinks[k][j].msg => i = j

\* C3: a record logged through a handle that get_logger(name, M) returned is
\* written with module M, whatever other get_logger calls were made.
C3_HandleKeepsModule ==
    \A i \in 1..Len(sinks.json) : \A m \in Modules :
        (\E n \in 1..nCalls : sinks.json[i].msg = Msg(n, m)) => sinks.json[i].module = m

\* C7: with threads racing through their first get_logger, the root logger
\* never holds two handlers of one sink and no record is written twice.
C7_OneHandlerPerSink ==
    /\ \A i, j \in 1..Len(rootHandlers) :
        rootHandlers[i].kind = rootHandlers[j].kind => i = j
    /\ WrittenOnce

\* C8: once setup_centralized_logging has run, the root level and the
\* handlers are those its first call installed, however often and with
\* whatever arguments it is called again, and no record is written twice.
C8_SetupIdempotent ==
    setupLog # <<>> =>
        /\ initialized
        /\ rootLevel = NumericLevel(setupLog[1].log_level)
        /\ rootHandlers = SetupHandlers(NumericLevel(setupLog[1].log_level),
                                        setupLog[1].console_output)
        /\ WrittenOnce

\* a second call with other arguments was made and records were written
C8_Witness ==
    /\ Len(setupLog) >= 2
    /\ setupLog[2].log_level # setupLog[1].log_level
    /\ setupLog[2].console_output # setupLog[1].console_output
    /\ nCalls >= 1
    /\ Len(sinks.json) >= 1

\* C9: all handles returned for one (module, name) key are one Logger
\* object, and the cache maps the key to it, also after racing first lookups.
C9_SameHandlePerKey ==
    \A h \in held :
        /\ LoggerKey(h.module, h.name) \in DOMAIN cache
        /\ cache[LoggerKey(h.module, h.name)] = h.obj
        /\ \A g \in held : (g.module = h.module /\ g.name = h.name) => g.obj = h.obj

\* two threads both missed the cache for one key (each attached its own
\* filter), and both have returned
C9_Witness ==
    /\ \A t \in Threads : thr[t].pc = "idle"
    /\ \E h \in held :
        /\ Len(loggerObjs[h.obj].filters) = 2
        /\ loggerObjs[h.obj].filters[1] = h.module
        /\ loggerObjs[h.obj].filters[2] = h.module

----------------------------------------------------------------------------
(* Claims about the span tracer *)

StartsWith(str, prefix) ==
    Len(str) >= Len(prefix) /\ SubSeq(str, 1, Len(prefix)) = prefix

\* the lines of the JSON sink whose message is "<event>:<operation> ..."
SpanLines(event, operation) ==
    {i \in 1..Len(sinks.json) :
        StartsWith(sinks.json[i].msg, event \o ":" \o operation \o " ")}

\* the lines of the JSON sink that end the scope of `operation`
TerminalLines(operation) ==
    SpanLines("SPAN_END", operation) \cup SpanLines("SPAN_ERROR", operation)

\* line i carries the span fields of the scope o
CarriesSpan(i, o) ==
    /\ "span_id" \in DOMAIN sinks.json[i] /\ sinks.json[i].span_id = o.span_id
    /\ "span_op" \in DOMAIN sinks.json[i] /\ sinks.json[i].span_op = o.op

\* C4: however a scope is left - the body finished, returned early or raised
\* any failure, one that is no Exception included - exactly one terminal
\* record (SPAN_END or SPAN_ERROR) with the scope's span_id was written.
C4_OneTerminalPerExit ==
    \A k \in 1..Len(spanOut) :
        /\ Cardinality(TerminalLines(spanOut[k].op)) = 1
        /\ \A i \in TerminalLines(spanOut[k].op) : CarriesSpan(i, spanOut[k])

\* C5: a scope whose body raised wrote exactly one SPAN_START and exactly one
\* SPAN_ERROR with its span_id and no SPAN_END, and the caller got the very
\* failure the body raised.
C5_FailingSpan ==
    \A k \in 1..Len(spanOut) :
        spanOut[k].body.exc # None =>
            /\ Cardinality(SpanLines("SPAN_START", spanOut[k].op)) = 1
            /\ Cardinality(SpanLines("SPAN_ERROR", spanOut[k].op)) = 1
            /\ SpanLines("SPAN_END", spanOut[k].op) = {}
            /\ \A i \in SpanLines("SPAN_START", spanOut[k].op)
                        \cup SpanLines("SPAN_ERROR", spanOut[k].op) :
                    CarriesSpan(i, spanOut[k])
            /\ spanOut[k].out = spanOut[k].body.exc

\* C6: a scope whose body finished or returned without a failure wrote
\* exactly one SPAN_START and exactly one SPAN_END, both with its span_id and
\* span_op, and no SPAN_ERROR.
C6_SucceedingSpan ==
    \A k \in 1..Len(spanOut) :
        spanOut[k].body.exc = None =>
            /\ Cardinality(SpanLines("SPAN_START", spanOut[k].op)) = 1
            /\ Cardinality(SpanLines("SPAN_END", spanOut[k].op)) = 1
            /\ SpanLines("SPAN_ERROR", spanOut[k].op) = {}
            /\ \A i \in SpanLines("SPAN_START", spanOut[k].op)
                        \cup SpanLines("SPAN_END", spanOut[k].op) :
                    CarriesSpan(i, spanOut[k])
            /\ spanOut[k].out = None

\* two scopes that drew the same span_id were left without a failure, one by
\* an early return and one by running to its end
C6_Witness ==
    \E j, k \in 1..Len(spanOut) :
        /\ spanOut[j].body.kind = "returned"
        /\ spanOut[k].body.kind = "completed"
        /\ spanOut[j].span_id = spanOut[k].span_id
        /\ SpanLines("SPAN_END", spanOut[j].op) # {}

\* C10: whenever a context map with the key "auth_token" is written, the
\* value written for that key is "[REDACTED]".
C10_AuthTokenRedacted ==
    \A i \in 1..Len(sinks.json) :
        ("context" \in DOMAIN sinks.json[i]
            /\ "auth_token" \in DOMAIN sinks.json[i].context)
        => sinks.json[i].context["auth_token"] = "[REDACTED]"

----------------------------------------------------------------------------
(* Claims about the query engine *)

\* the lines that decode as a log record, in file order
DecodableLines(lines) ==
    Select(lines, {lines[i] : i \in {j \in 1..Len(lines) :
                                        JsonLoads(lines[j]).kind = "dict"}})

\* the last n elements
LastN(seq, n) == IF Len(seq) > n THEN SubSeq(seq, Len(seq) - n + 1, Len(seq)) ELSE seq

\* the file as the query read it: the file only grows at its end
FileRead == SubSeq(sinks.json, 1, resp[1].n)

\* the file holds no line that is valid JSON without being an object
OnlyObjectsOrGarbage ==
    \A i \in 1..Len(sinks.json) : JsonLoads(sinks.json[i]).kind # "list"

\* C12: a query answers what it would answer on the same file without the
\* lines that do not decode as a log record, and it does not fail.
C12_BadLinesSkipped ==
    resp # None =>
        /\ resp[1].out.status = 200
        /\ resp[1].op = "logs" =>
            resp[1].out = GetDebugLogs(DecodableLines(FileRead), resp[1].q, resp[1].at)
        /\ resp[1].op = "trace" =>
            resp[1].out = GetRequestTrace(DecodableLines(FileRead), resp[1].q)

\* the filter rules as the specification words them: correlation id and text
\* are case-insensitive substrings, level and module case-insensitive equals
EligibleAsSpecified(entry, q) ==
    /\ Truthy(q.level) => Upper(EntryGet(entry, "level", "")) = Upper(q.level[1])
    /\ Truthy(q.request_id) =>
        Contains(Lower(EntryGet(entry, "request_id", "")), Lower(q.request_id[1]))
    /\ Truthy(q.module) => Upper(EntryGet(entry, "module", "")) = Upper(q.module[1])
    /\ Truthy(q.search) =>
        Contains(Lower(EntryGet(entry, "msg", "")), Lower(q.search[1]))

\* C16: on a file of log records, queryLogs returns the newest records that
\* satisfy every supplied filter, the id and text filters taken as
\* case-insensitive substrings and the level and module filters as
\* case-insensitive equalities.
C16_FiltersCaseInsensitive ==
    (resp # None /\ resp[1].op = "logs" /\ OnlyObjectsOrGarbage) =>
        LET lines == DecodableLines(FileRead)
            eligible == {lines[i] : i \in {j \in 1..Len(lines) :
                                        EligibleAsSpecified(lines[j], resp[1].q)}}
        IN resp[1].out.logs = LastN(Select(lines, eligible), resp[1].q.last)

\* C17: queryLogs with limit N returns the last min(N, m) of the m records of
\* the file that pass the supplied filters, oldest first.
C17_LastMatchingRecords ==
    (resp # None /\ resp[1].op = "logs") =>
        LET lines == DecodableLines(FileRead)
            matching == {lines[i] : i \in {j \in 1..Len(lines) :
                                        PassesFilters(lines[j], resp[1].q, None)}}
        IN resp[1].out.logs = LastN(Select(lines, matching), resp[1].q.last)

\* the lines the handler of request r wrote, among `lines`
EmittedBy(lines, rs) ==
    Select(lines, {lines[i] : i \in {j \in 1..Len(lines) :
                        \E r \in rs : lines[j].msg \in {RootMsg(r), FailMsg(r)}}})

\* C13: the trace of an id c that requests bound holds exactly the records
\* those requests emitted, in emission order, has_errors tells whether one
\* of them is an ERROR, and modules_involved is not empty.
C13_TraceIsTheRequest ==
    (resp # None /\ resp[1].op = "trace") =>
        LET c == resp[1].q
            rs == {r \in Requests : reqId[r] = Some(c)}
            mine == EmittedBy(FileRead, rs)
        IN mine # <<>> =>
            /\ resp[1].out.logs = mine
            /\ resp[1].out.has_errors = (\E i \in 1..Len(mine) : mine[i].level = "ERROR")
            /\ resp[1].out.modules_involved # {}

\* C15: unique_requests of the summary is the number of distinct ids under
\* which requests wrote the summarised records; records written outside
\* every request add nothing to it.
C15_UniqueRequestsAreRequests ==
    (resp # None /\ resp[1].op = "logs" /\ resp[1].out.summary # None) =>
        LET logs == resp[1].out.logs
            ids == {logs[i].request_id :
                        i \in {j \in 1..Len(logs) : logs[j].msg # BgMsg}}
        IN resp[1].out.summary[1].unique_requests = Cardinality(ids)

\* the messages of a list of records or of summary items
Messages(items) == [i \in 1..Len(items) |-> items[i].msg]

\* C14: recent_errors of the summary are the newest ERROR records of the
\* summarised set, at most 5 of them.
C14_RecentErrorsAreNewest ==
    (resp # None /\ resp[1].op = "logs" /\ resp[1].out.summary # None) =>
        LET logs == resp[1].out.logs
            errors == Select(logs, {logs[i] : i \in {j \in 1..Len(logs) :
                                                        logs[j].level = "ERROR"}})
        IN Messages(resp[1].out.summary[1].recent_errors) = Messages(LastN(errors, 5))

----------------------------------------------------------------------------
(* Claims about the JSON-lines file under concurrent writers *)

\* C11: queryLogs with limit N returns at most N records, in non-decreasing
\* order of their ts, also for a file that several threads wrote at once.
C11_BoundedAndOrdered ==
    (resp # None /\ resp[1].op = "logs") =>
        /\ Len(resp[1].out.logs) <= resp[1].q.last
        /\ \A i, j \in 1..Len(resp[1].out.logs) :
            i < j => resp[1].out.logs[i].ts <= resp[1].out.logs[j].ts

\* C20: every line of the file is the complete object of one record, no
\* record has two lines, and the lines are in the order in which the handler
\* took the records up.
C20_WholeLinesInHandlingOrder ==
    /\ \A i \in 1..Len(sinks.json) :
        /\ JsonLoads(sinks.json[i]).kind = "dict"
        /\ \E n \in 1..nCalls, t \in Threads : sinks.json[i].msg = Msg(n, t)
    /\ \A i, j \in 1..Len(sinks.json) : sinks.json[i].msg = sinks.json[j].msg => i = j
    /\ Len(sinks.json) <= Len(handled)
    /\ Messages(sinks.json) = SubSeq(handled, 1, Len(sinks.json))

\* a thread waits for the handler's lock while the other, which holds it,
\* is about to write, and the file already has a line
C20_Witness ==
    /\ Len(sinks.json) >= 1
    /\ \E t, u \in Threads :
        /\ hlock = Some(t) /\ emit[t].pc = "write"
        /\ emit[u].pc = "acquire"

----------------------------------------------------------------------------
(* Claims about follow mode *)

\* C18: follow mode ends only when it is interrupted, whatever lines are
\* appended to the file.
C18_FollowNeverExits == follow.pc \in {"off", "polling", "stopped"}

\* the records among lines first..last of the file that pass the filters
MatchingFrom(first, last) ==
    LET lines == DecodableLines(SubSeq(sinks.json, first, last))
    IN Select(lines, {lines[i] : i \in {j \in 1..Len(lines) :
                                            should_include(lines[j], follow)}})

\* C19: what follow mode has printed is exactly the matching records among
\* the lines appended after its start that it has read, each once and in
\* append order (a record whose trailing newline is still to come may be
\* printed already).
C19_FollowPrintsAppended ==
    follow.pc # "off" =>
        LET read == IF follow.mid THEN follow.pos - 1 ELSE follow.pos
        IN \/ follow.printed = MatchingFrom(follow.start + 1, read)
           \/ follow.mid /\ follow.printed = MatchingFrom(follow.start + 1, follow.pos)

----------------------------------------------------------------------------
(* Claims about the sinks *)

\* the sinks after the calls made so far, had the JSON sink never failed
RECURSIVE Replay(_)
Replay(n) ==
    IF n = 0 THEN NoSinks
    ELSE LoggerLogIn(Reg, Replay(n - 1), calls[n].obj, calls[n].level, calls[n].msg,
                     NoExtra, Background)

\* the calls whose record the JSON sink failed on
Failed == {calls[k].msg : k \in {i \in 1..Len(calls) : calls[i].fault # "none"}}

\* C21: when the JSON-lines sink fails on a record, the logging call returns
\* normally, the console and text sinks hold what they would hold had the
\* sink not failed, and the JSON-lines file holds, in order, the lines of all
\* other records: only the record the sink failed on is missing, and later
\* records are written again.
C21_SinkFailureContained ==
    /\ \A k \in 1..Len(calls) : calls[k].out = "returned"
    /\ \A kind \in {"console", "main", "error"} : sinks[kind] = Replay(Len(calls))[kind]
    /\ sinks.json = SelectSeq(Replay(Len(calls)).json, LAMBDA e : e.msg \notin Failed)

\* C21 witness: the sink failed on a record that the general text sink
\* holds, and the next record is in the JSON-lines file.
C21_Witness ==
    \E k \in 1..Len(calls) - 1 :
        /\ calls[k].reported
        /\ \E i \in 1..Len(sinks.main) : sinks.main[i].msg = calls[k].msg
        /\ \A i \in 1..Len(sinks.json) : sinks.json[i].msg # calls[k].msg
        /\ calls[k + 1].fault = "none"
        /\ \E i \in 1..Len(sinks.json) : sinks.json[i].msg = calls[k + 1].msg

\* whether a sink holds the record of call k
Holds(kind, k) == \E i \in 1..Len(sinks[kind]) : sinks[kind][i].msg = calls[k].msg

\* C22: whatever log_level the sink layer was initialised with, a record of
\* level L (emitted while the JSON sink works) is in the JSON-lines file and
\* in the general text sink exactly when L >= INFO, and in the error-only
\* sink exactly when L >= ERROR.
C22_SinkThresholds ==
    \A k \in 1..Len(calls) :
        calls[k].fault = "none" =>
            /\ Holds("json", k) <=> LevelNo(calls[k].level) >= LevelNo("INFO")
            /\ Holds("main", k) <=> LevelNo(calls[k].level) >= LevelNo("INFO")
            /\ Holds("error", k) <=> LevelNo(calls[k].level) >= LevelNo("ERROR")

----------------------------------------------------------------------------
(* Claims about the diagnostic summary *)

\* the records of the file that are inside the window of the summary made
InWindow == {i \in 1..Len(sinks.json) :
                sinks.json[i].ts >= resp[1].at - resp[1].q * 3600}
ErrorsInWindow == {i \in InWindow : sinks.json[i].level = "ERROR"}

\* C24: over a non-empty window with e ERROR records out of n, the status
\* is CRITICAL exactly when e/n > 10%, WARNING exactly when
\* 5% < e/n <= 10%, DEGRADED exactly when 0 < e/n <= 5% and HEALTHY exactly
\* when e = 0; 12 errors out of 100 give error_rate "12.0%" and CRITICAL,
\* and 10 out of 100 give WARNING.
C24_HealthThresholds ==
    (resp # None /\ resp[1].op = "summary" /\ InWindow # {}) =>
        LET e == Cardinality(ErrorsInWindow)
            n == Cardinality(InWindow)
            out == resp[1].out
        IN /\ "status" \in DOMAIN out
           /\ out.status \in {"CRITICAL", "WARNING", "DEGRADED", "HEALTHY"}
           /\ out.status = "CRITICAL" <=> 10 * e > n
           /\ out.status = "WARNING" <=> (20 * e > n /\ 10 * e <= n)
           /\ out.status = "DEGRADED" <=> (e > 0 /\ 20 * e <= n)
           /\ out.status = "HEALTHY" <=> e = 0
           /\ (e = 12 /\ n = 100) => (out.error_rate = "12.0%" /\ out.status = "CRITICAL")
           /\ (e = 10 /\ n = 100) => out.status = "WARNING"

\* C24 witness: a summary over a window of 100 records, 12 of them ERROR,
\* reports "12.0%" and CRITICAL.
C24_Witness ==
    /\ resp # None /\ resp[1].op = "summary"
    /\ Cardinality(InWindow) = 100 /\ Cardinality(ErrorsInWindow) = 12
    /\ resp[1].out.status = "CRITICAL" /\ resp[1].out.error_rate = "12.0%"

----------------------------------------------------------------------------
(* Claims about exception capture *)

\* the lines the JSON sink wrote for call k
LinesOf(k) == SelectSeq(sinks.json, LAMBDA e : e.msg = calls[k].msg)

\* the variables in the context of a line
LocalsOf(entry) ==
    IF entry.context.locals = None THEN <<>> ELSE entry.context.locals[1]

\* C28: log_exception_context emits exactly one ERROR record, and its
\* context holds the caller's variables like this: none whose name starts
\* with "_"; "[REDACTED]" for a name that contains, in any case, password,
\* token, key, secret, credential or auth; for any other name its repr, cut
\* to max_local_repr characters plus the truncation marker when longer, or
\* "[repr failed]" when repr raises - and each variable is there whatever
\* happens on the others.
C28_CaptureSanitised ==
    \A k \in 1..Len(calls) :
        /\ Len(LinesOf(k)) = 1
        /\ LinesOf(k)[1].level = "ERROR"
        /\ calls[k].include_locals =>
            LET L == LocalsOf(LinesOf(k)[1])
                f == calls[k].f_locals
                mx == calls[k].max_local_repr
            IN /\ DOMAIN L = {n \in DOMAIN f : ~StartsWith(n, "_")}
               /\ \A n \in DOMAIN L :
                    IF \E p \in SensitivePatterns : Contains(Lower(n), p)
                    THEN L[n] = "[REDACTED]"
                    ELSE IF f[n].repr = None THEN L[n] = "[repr failed]"
                    ELSE IF Len(f[n].repr[1]) <= mx THEN L[n] = f[n].repr[1]
                    ELSE /\ Len(L[n]) = mx + Len("...[truncated]")
                         /\ StartsWith(f[n].repr[1], SubSeq(L[n], 1, mx))
                         /\ SubSeq(L[n], mx + 1, Len(L[n])) = "...[truncated]"

\* C28 witness: one capture whose frame has a variable that cannot be
\* rendered, a sensitive one and one with a long rendering, with its record
\* holding the marker of each.
C28_Witness ==
    \E k \in 1..Len(calls) :
        /\ {"broken", "AuthHeader", "payload"} \subseteq DOMAIN calls[k].f_locals
        /\ calls[k].include_locals /\ calls[k].max_local_repr = 3
        /\ Len(LinesOf(k)) = 1
        /\ LocalsOf(LinesOf(k)[1]).broken = "[repr failed]"
        /\ LocalsOf(LinesOf(k)[1]).AuthHeader = "[REDACTED]"
        /\ LocalsOf(LinesOf(k)[1]).payload = "'ab...[truncated]"

\* no value inside the context or the exception of a line is None
NullFree(entry) ==
    /\ "exception" \in DOMAIN entry =>
            \A k \in DOMAIN entry.exception : entry.exception[k] # None
    /\ ("context" \in DOMAIN entry /\ "exception_type" \in DOMAIN entry.context) =>
            \A k \in DOMAIN entry.context : entry.context[k] # None

\* C29: no line of the JSON-lines file holds a null: a field that is not
\* set, at the top of the object or inside context and exception, is absent
\* - also for a capture made with include_locals = false or from a frame
\* without capturable variables.
C29_NoNullWritten ==
    \A i \in 1..Len(sinks.json) : NullFree(sinks.json[i])

----------------------------------------------------------------------------
(* Claims about the order and the duration of span records *)

\* the lines of a sink whose message is "<event>:<operation> ..."
SpanLinesIn(kind, event, operation) ==
    {i \in 1..Len(sinks[kind]) :
        StartsWith(sinks[kind][i].msg, event \o ":" \o operation \o " ")}

\* C25: in each sink, every terminal record of a span (SPAN_END or
\* SPAN_ERROR) comes after the SPAN_START record of that span: no terminal
\* record is written before its START, or without it.
C25_StartBeforeTerminal ==
    \A kind \in DOMAIN sinks : \A n \in 1..MaxSpans :
        \A j \in SpanLinesIn(kind, "SPAN_END", Op(n))
                 \cup SpanLinesIn(kind, "SPAN_ERROR", Op(n)) :
            \E i \in SpanLinesIn(kind, "SPAN_START", Op(n)) : i < j

\* C26: the duration_ms of every terminal record is >= 0, whatever the
\* clock returned when the scope was entered and when it was left.
C26_DurationNotNegative ==
    \A i \in 1..Len(sinks.json) :
        "duration_ms" \in DOMAIN sinks.json[i] => sinks.json[i].duration_ms >= 0

\* C30: of two scopes nested on one execution path, the inner START follows
\* the outer START and the inner terminal record precedes the outer one;
\* when the inner body's failure leaves both scopes, each wrote its own
\* SPAN_ERROR, the inner first, and neither a SPAN_END; when the outer body
\* caught it and ended without failure, the inner wrote SPAN_ERROR and the
\* outer SPAN_END.
C30_NestedSpans ==
    (Len(spanOut) = 2 /\ spanOut[1].op = Op(2)) =>
        LET inner == spanOut[1].op
            outer == spanOut[2].op
            Term(o) == TerminalLines(o)
        IN /\ \A i \in SpanLines("SPAN_START", outer), j \in SpanLines("SPAN_START", inner) :
                i < j
           /\ Term(inner) # {} /\ Term(outer) # {}
           /\ \A i \in Term(inner), j \in Term(outer) : i < j
           /\ (spanOut[1].body.exc # None /\ spanOut[2].body.exc = spanOut[1].body.exc) =>
                /\ Cardinality(SpanLines("SPAN_ERROR", inner)) = 1
                /\ Cardinality(SpanLines("SPAN_ERROR", outer)) = 1
                /\ SpanLines("SPAN_END", inner) \cup SpanLines("SPAN_END", outer) = {}
           /\ (spanOut[1].body.exc # None /\ spanOut[2].body.exc = None) =>
                /\ Cardinality(SpanLines("SPAN_ERROR", inner)) = 1
                /\ Cardinality(SpanLines("SPAN_END", outer)) = 1
                /\ SpanLines("SPAN_END", inner) \cup SpanLines("SPAN_ERROR", outer) = {}

----------------------------------------------------------------------------
(* Claims about the correlation id across the sinks *)

\* the ids a sink wrote on the records with message m
IdsWritten(kind, m) ==
    {sinks[kind][i].request_id : i \in {j \in 1..Len(sinks[kind]) : sinks[kind][j].msg = m}}

\* C27: the console sink, the text sinks and the JSON-lines sink write the
\* same correlation id on a record, and it is the id that is current in the
\* context that emitted the record, however other contexts set their ids and
\* emit in between.
C27_SinksWriteCurrentId ==
    /\ \A m \in {RootMsg(r) : r \in Requests} \cup {BgMsg} :
            Cardinality(UNION {IdsWritten(kind, m) : kind \in SinkKinds}) <= 1
    /\ \A r \in Requests : \A kind \in SinkKinds :
            \A id \in IdsWritten(kind, RootMsg(r)) : ctxVar[r] = Some(id)

----------------------------------------------------------------------------
(* Claims about the file as a whole *)

\* C23: the JSON-lines file is append-only under every operation - emit,
\* span, exception capture, frontend ingest, the two debug queries, the
\* diagnostic summary, the command-line tail and follow mode: in every step
\* what the file held before is a prefix of what it holds after.
C23_AppendOnly ==
    [][/\ Len(sinks.json') >= Len(sinks.json)
       /\ SubSeq(sinks.json', 1, Len(sinks.json)) = sinks.json]_vars

\* C23 witness: the file holds the records of a capture and of a frontend
\* event, a reader has read it and follow mode is running.
C23_Witness ==
    /\ Len(sinks.json) >= 2
    /\ calls # <<>> /\ ingest # <<>>
    /\ resp # None /\ follow.pc = "polling" /\ follow.pos > follow.start

----------------------------------------------------------------------------
(* Claims about frontend ingestion *)

\* the frontend events posted so far that were answered with "logged"
Acknowledged == {k \in 1..Len(ingest) : ingest[k].response.status = "logged"}

\* the lines of the JSON-lines file written through the frontend handle
FrontendLines ==
    {i \in 1..Len(sinks.json) :
        /\ sinks.json[i].module = "FRONTEND"
        /\ StartsWith(sinks.json[i].msg, FrontendMessage)}

\* C31: every frontend event answered with status "logged" has exactly one
\* record with module FRONTEND in the JSON-lines file, whatever the event's
\* level is: error, critical, warning, warn, info, debug or an unknown word.
C31_AcknowledgedIsWritten ==
    Cardinality(FrontendLines) = Cardinality(Acknowledged)

----------------------------------------------------------------------------
(* Claims about readers of a missing file *)

\* the file is not on disk: it was not in the log directory, nothing was
\* written to it, and no handler that opens it was built
SourceMissing(file) ==
    /\ file \notin logDir
    /\ sinks[file] = <<>>
    /\ \A i \in 1..Len(rootHandlers) :
            rootHandlers[i].kind = file => file \notin {"main", "error"}

\* the file is not on disk after the step either
StaysMissing(file) ==
    /\ file \notin logDir'
    /\ sinks'[file] = <<>>
    /\ \A i \in 1..Len(rootHandlers') :
            rootHandlers'[i].kind = file => file \notin {"main", "error"}

\* the file a one-shot reader reads
SourceOf(op) == IF op = "text" THEN "main" ELSE "json"

\* what a reader reports of a missing file: nothing found, with the reason
ReportsMissing(r) ==
    /\ "message" \in DOMAIN r.out
    /\ CASE r.op = "logs" ->
                /\ r.out.status = 200 /\ r.out.logs = <<>> /\ r.out.count = 0
                /\ r.out.message = "No logs found"
         [] r.op = "trace" ->
                /\ r.out.status = 200 /\ r.out.logs = <<>>
                /\ r.out.message = "No logs found"
         [] r.op = "summary" ->
                /\ "raised" \notin DOMAIN r.out
                /\ r.out.status = "NO_LOGS"
                /\ r.out.log_file_exists = FALSE
         [] r.op \in {"tail", "text"} ->
                /\ ~r.out.raised /\ r.out.printed = <<>>
                /\ Contains(r.out.message, "not found")

\* C32: a read-side operation started while its source file does not exist
\* (the query, the request trace, the summary, the command-line tail and the
\* follow mode of either file) ends normally with an empty result and a
\* message or status that says so, raises nothing, and leaves the file
\* missing.
C32_MissingSourceReported ==
    [][/\ (resp = None /\ resp' # None /\ SourceMissing(SourceOf(resp'[1].op)))
            => /\ ReportsMissing(resp'[1])
               /\ StaysMissing(SourceOf(resp'[1].op))
       /\ (follow.pc = "off" /\ follow'.pc # "off" /\ SourceMissing(follow'.source))
            => /\ follow'.pc = "not found"
               /\ follow'.printed = <<>>
               /\ StaysMissing(follow'.source)]_vars

\* C32 witness: the query endpoint answered "No logs found" for a JSON-lines
\* file that is still missing, while application.log exists.
C32_Witness ==
    /\ resp # None
    /\ resp[1].op = "logs"
    /\ resp[1].out.logs = <<>>
    /\ "message" \in DOMAIN resp[1].out
    /\ SourceMissing("json")
    /\ ~SourceMissing("main")

====
